---- MODULE Spec2Model ----
(***************************************************************************)
(* Compliance evaluation engine of the CIS benchmark checkers:             *)
(*   cis-benchmark-checker/scripts/cis_checker.py      (AWS, base)         *)
(*   cis-benchmark-checker/scripts/extended_cis.py     (AWS, extended)     *)
(*   cis-benchmark-checker/scripts/k8s_cis_checker.py  (Kubernetes)        *)
(*   cis-benchmark-checker/scripts/lambda_function.py  (Lambda trigger)    *)
(*                                                                         *)
(* Evaluators are operators from a resource snapshot and a pattern of      *)
(* query failures to the list of ComplianceResult they return.  The        *)
(* orchestrators (run_check, run_compliance_check) are state machines that *)
(* take one step per requested control.                                    *)
(***************************************************************************)
EXTENDS Integers, Sequences, FiniteSets, TLC

VARIABLES
    ev_ctl,       \* evaluator under test (its control id)
    ev_in,        \* its input: resource snapshot and query-failure pattern
    ev_pc,        \* "ready" | "returned"
    ev_out,       \* the list the evaluator returned
    platform,     \* which orchestrator runs: "aws" (CISBenchmarkChecker),
                  \* "ext" (ExtendedCISChecker), "k8s" (KubernetesCISChecker),
                  \* "lambda" (lambda_handler, which runs ExtendedCISChecker)
    CONTROL_IDS,  \* the CONTROL_IDS environment variable of the Lambda
    control_ids,  \* the control_ids argument: [given |-> FALSE] is None
    env,          \* the account or cluster the run looks at
    pc,           \* position of the run
    loop_ids,     \* the list the current for loop iterates over
    idx,          \* index of the next element of loop_ids
    all_results,  \* results collected so far
    invoked,      \* log of evaluator invocations, in call order
    component,    \* which reporting code runs: "aws", "k8s" (generate_report)
                  \* or "lambda" (generate_summary)
    report_results, \* the results handed to it
    output_format,  \* the output_format argument
    report_pc,    \* "ready" | "reported"
    report,       \* what it returned
    setup,        \* what the constructor of the checker meets: "ok", or the
                  \* step of it that raises
    exit_status,  \* whether the command-line run has ended, and its status
    hub_results,  \* the results handed to send_to_security_hub
    findings,     \* its findings list
    hub_pc,       \* its position
    hub_i,        \* the start index of the next batch
    submissions,  \* the batch_import_findings calls made, with their outcome
    now,          \* the clock: days elapsed since the snapshot was taken
    ev_first,     \* the list the first of two evaluations returned
    rem_op,       \* the method of SecurityGroupRemediator that runs
    rem_in,       \* its arguments and the security groups EC2 describes
    rem_pc,       \* its position
    rules_to_revoke,  \* remediate_security_group: the planned revocations
    rules_to_add,     \* and the planned replacement rules
    rem_i,        \* index of the next planned rule
    remediation_plan, \* the plan remediate_security_group returns
    ec2_calls,    \* the revoke / authorize calls made, in order
    rem_out,      \* what find_open_security_groups or the report returned
    flow_event,   \* the event of the flow-log enabler's lambda_handler
    flow_world,   \* what STS and EC2 answer: role assumption, regions, VPCs
    flow_pc,      \* position of the handler
    region_i,     \* index of the region the outer loop is at
    vpc_i,        \* index of the VPC the inner loop is at
    total_processed,  \* its counter
    flow_calls,   \* the describe_vpcs and create_flow_logs calls made
    flow_response,    \* what the handler returned
    handler_config,   \* the environment of the CIS lambda_handler
    handler_results,  \* the results its run_check returns
    handler_pc,   \* position of the handler
    handler_log,  \* the steps taken, with the failures that were logged
    handler_response  \* what the handler returned

vars == <<ev_ctl, ev_in, ev_pc, ev_out, platform, CONTROL_IDS, control_ids, env,
          pc, loop_ids, idx, all_results, invoked, component, report_results,
          output_format, report_pc, report, setup, exit_status, hub_results,
          findings, hub_pc, hub_i, submissions, now, ev_first, rem_op, rem_in,
          rem_pc, rules_to_revoke, rules_to_add, rem_i, remediation_plan,
          ec2_calls, rem_out, flow_event, flow_world, flow_pc, region_i, vpc_i,
          total_processed, flow_calls, flow_response, handler_config,
          handler_results, handler_pc, handler_log, handler_response>>

ev_vars == <<ev_ctl, ev_in, ev_pc, ev_out>>
run_vars == <<platform, CONTROL_IDS, control_ids, env, pc, loop_ids, idx,
              all_results, invoked>>
rep_vars == <<component, report_results, output_format, report_pc, report>>

main_vars == <<setup, exit_status>>
hub_vars == <<hub_results, findings, hub_pc, hub_i, submissions>>
twice_vars == <<now, ev_first>>
rem_vars == <<rem_op, rem_in, rem_pc, rules_to_revoke, rules_to_add, rem_i,
              remediation_plan, ec2_calls, rem_out>>
flow_vars == <<flow_event, flow_world, flow_pc, region_i, vpc_i,
               total_processed, flow_calls, flow_response>>
handler_vars == <<handler_config, handler_results, handler_pc, handler_log,
                  handler_response>>

\* what an evaluator call, a step of a run, a reporting step, a submission to
\* Security Hub leaves alone
not_ev_vars == <<run_vars, rep_vars, main_vars, hub_vars, twice_vars, rem_vars, flow_vars, handler_vars>>
not_run_vars == <<ev_vars, rep_vars, main_vars, hub_vars, twice_vars, rem_vars, flow_vars, handler_vars>>
not_rep_vars == <<ev_vars, run_vars, main_vars, hub_vars, twice_vars, rem_vars, flow_vars, handler_vars>>
not_hub_vars == <<ev_vars, run_vars, rep_vars, main_vars, twice_vars, rem_vars, flow_vars, handler_vars>>
not_rem_vars == <<ev_vars, run_vars, rep_vars, main_vars, hub_vars, twice_vars,
                  flow_vars, handler_vars>>
not_flow_vars == <<ev_vars, run_vars, rep_vars, main_vars, hub_vars, twice_vars,
                   rem_vars, handler_vars>>
not_handler_vars == <<ev_vars, run_vars, rep_vars, main_vars, hub_vars,
                      twice_vars, rem_vars, flow_vars>>

-----------------------------------------------------------------------------
(* ComplianceStatus and ComplianceResult *)

COMPLIANT == "COMPLIANT"
NON_COMPLIANT == "NON_COMPLIANT"
NOT_APPLICABLE == "NOT_APPLICABLE"
INSUFFICIENT_DATA == "INSUFFICIENT_DATA"

ComplianceStatus == {COMPLIANT, NON_COMPLIANT, NOT_APPLICABLE, INSUFFICIENT_DATA}

\* The dataclass; timestamp, region and account_id are the same for every
\* result of one run and are left out of the record.
ComplianceResult(cid, st, rid, rtype, why, fix) ==
    [control_id |-> cid, status |-> st, resource_id |-> rid,
     resource_type |-> rtype, reason |-> why, remediation |-> fix]

\* Python's list.extend / concatenation of a sequence of batches
RECURSIVE Flatten(_)
Flatten(batches) ==
    IF batches = <<>> THEN <<>>
    ELSE Head(batches) \o Flatten(Tail(batches))

Count(seq, P(_)) == Cardinality({i \in 1..Len(seq) : P(seq[i])})

\* str(e) of the exception a failed query raises
QueryError == "AccessDenied"

-----------------------------------------------------------------------------
(* Bounds of the model *)

MaxSGs == 2        \* security groups in a snapshot
MaxUsers == 2      \* IAM users in a snapshot
MaxTrails == 2     \* CloudTrail trails in a snapshot
MaxKeys == 2       \* KMS keys in a snapshot
MaxVpcs == 2       \* VPCs in a snapshot
MaxPods == 2       \* pods in a snapshot
MaxNamespaces == 2 \* non-system namespaces in a snapshot

\* "no value": rule.get('FromPort') is None; also "the listing never fails"
NoPort == -1
NoFailure == -1

-----------------------------------------------------------------------------
(* CISBenchmarkChecker.check_control_5_2 *)

admin_ports == <<22, 3389, 5985, 5986>>

\* Python truthiness of a port value: None and 0 are both falsy
Truthy(port) == port # NoPort /\ port # 0

\* for ip_range in rule.get('IpRanges', []): if CidrIp == '0.0.0.0/0'
open_to_world(rule) ==
    \E r \in 1..Len(rule.IpRanges) : rule.IpRanges[r] = "0.0.0.0/0"

\* the value of risky_rule after the body of the rule loop
risky_rule(rule) ==
    IF rule.IpProtocol = "tcp"
    THEN /\ Truthy(rule.FromPort) /\ Truthy(rule.ToPort)
         /\ \E a \in 1..Len(admin_ports) :
                /\ rule.FromPort <= admin_ports[a]
                /\ admin_ports[a] <= rule.ToPort
                /\ open_to_world(rule)
    ELSE IF rule.IpProtocol = "-1"
    THEN open_to_world(rule)
    ELSE FALSE

NonCompliant_5_2(sg) ==
    ComplianceResult("5.2", NON_COMPLIANT, sg.GroupId, "EC2::SecurityGroup",
                     "Allows admin ports from 0.0.0.0/0",
                     "Restrict source IPs to specific networks")

Compliant_5_2(sg) ==
    ComplianceResult("5.2", COMPLIANT, sg.GroupId, "EC2::SecurityGroup",
                     "No admin ports open to 0.0.0.0/0", "No action needed")

\* scan_rules_5_2 with the break after the append left out: the loop goes on
\* over the remaining rules and, never broken, runs its else clause
RECURSIVE scan_rules_5_2_no_break(_, _, _)
scan_rules_5_2_no_break(sg, i, results) ==
    IF i > Len(sg.IpPermissions)
    THEN Append(results, Compliant_5_2(sg))
    ELSE IF risky_rule(sg.IpPermissions[i])
         THEN scan_rules_5_2_no_break(sg, i + 1, Append(results, NonCompliant_5_2(sg)))
         ELSE scan_rules_5_2_no_break(sg, i + 1, results)

\* for rule in sg.get('IpPermissions', []): ... break / else: ...
RECURSIVE scan_rules_5_2(_, _, _)
scan_rules_5_2(sg, i, results) ==
    IF i > Len(sg.IpPermissions)
    THEN Append(results, Compliant_5_2(sg))                 \* the for's else
    ELSE IF risky_rule(sg.IpPermissions[i])
         THEN Append(results, NonCompliant_5_2(sg))         \* append; break
         ELSE scan_rules_5_2(sg, i + 1, results)

\* for page in paginator.paginate(): for sg in page['SecurityGroups']
RECURSIVE scan_groups_5_2(_, _, _, _)
scan_groups_5_2(sgs, g, last, results) ==
    IF g > last THEN results
    ELSE scan_groups_5_2(sgs, g + 1, last, scan_rules_5_2(sgs[g], 1, results))

\* snapshot.sgs: the security groups describe_security_groups lists, in order;
\* snapshot.fail_after: NoFailure, or the number of groups the paginator
\* yields before a page request raises (0: the first request fails)
check_control_5_2(snapshot) ==
    LET failed == snapshot.fail_after # NoFailure
        last == IF failed THEN snapshot.fail_after ELSE Len(snapshot.sgs)
        results == scan_groups_5_2(snapshot.sgs, 1, last, <<>>)
    IN  IF failed
        THEN Append(results,
                 ComplianceResult("5.2", INSUFFICIENT_DATA, "N/A",
                     "EC2::SecurityGroup", "Error during check: " \o QueryError,
                     "Review EC2 permissions and retry"))
        ELSE results

\* ingress rules of the snapshots
Rule(proto, from, to, ranges) ==
    [IpProtocol |-> proto, FromPort |-> from, ToPort |-> to, IpRanges |-> ranges]

SshWorld == Rule("tcp", 22, 22, <<"10.0.0.0/8", "0.0.0.0/0">>)
FromZeroWorld == Rule("tcp", 0, 3389, <<"0.0.0.0/0">>)
WebWorld == Rule("tcp", 80, 443, <<"0.0.0.0/0">>)
UdpWorld == Rule("udp", 22, 22, <<"0.0.0.0/0">>)
AllWorld == Rule("-1", NoPort, NoPort, <<"0.0.0.0/0">>)
RdpPrivate == Rule("tcp", 3389, 3389, <<"10.0.0.0/8">>)
WinRmWorld == Rule("tcp", 5000, 6000, <<"0.0.0.0/0">>)

\* the IpPermissions lists a security group of a snapshot may have
IngressRuleLists ==
    { <<>>, <<SshWorld>>, <<FromZeroWorld>>, <<WebWorld>>, <<UdpWorld>>,
      <<AllWorld>>, <<RdpPrivate>>, <<WinRmWorld>>,
      <<SshWorld, WebWorld>>, <<WebWorld, SshWorld>>, <<SshWorld, AllWorld>>,
      <<RdpPrivate, UdpWorld>>, <<WebWorld, FromZeroWorld>>,
      <<SshWorld, WinRmWorld, AllWorld>> }

GroupIds == <<"sg-1", "sg-2", "sg-3", "sg-4">>

SecurityGroupLists ==
    UNION { { [g \in 1..n |-> [GroupId |-> GroupIds[g], IpPermissions |-> perms[g]]] :
              perms \in [1..n -> IngressRuleLists] } : n \in 0..MaxSGs }

Snapshots_5_2 ==
    UNION { { [sgs |-> l, fail_after |-> f] : f \in {NoFailure} \cup 0..Len(l) } :
            l \in SecurityGroupLists }


-----------------------------------------------------------------------------
(* CISBenchmarkChecker.check_control_1_3 *)

\* 'PasswordLastUsed' not in user / 'LastUsedDate' not in AccessKeyLastUsed
NeverUsed == -1

UnusedDaysLimit == 45

Password_1_3(user) ==
    IF user.PasswordLastUsed = NeverUsed THEN <<>>
    ELSE IF user.PasswordLastUsed > UnusedDaysLimit
    THEN <<ComplianceResult("1.3", NON_COMPLIANT, user.UserName, "IAM::User",
              "Password unused for " \o ToString(user.PasswordLastUsed) \o " days",
              "Disable or remove the user account")>>
    ELSE <<ComplianceResult("1.3", COMPLIANT, user.UserName, "IAM::User",
              "Password used within " \o ToString(user.PasswordLastUsed) \o " days",
              "No action needed")>>

\* one key of keys_response['AccessKeyMetadata']; a failed
\* get_access_key_last_used is logged as a warning and adds nothing
AccessKey_1_3(key) ==
    IF key.last_used_fails THEN <<>>
    ELSE IF key.LastUsedDate # NeverUsed /\ key.LastUsedDate > UnusedDaysLimit
    THEN <<ComplianceResult("1.3", NON_COMPLIANT, key.AccessKeyId, "IAM::AccessKey",
              "Access key unused for " \o ToString(key.LastUsedDate) \o " days",
              "Disable or delete the access key")>>
    ELSE <<>>

\* the inner try: a failed list_access_keys is logged as a warning and adds
\* nothing for the user's keys
AccessKeys_1_3(user) ==
    IF user.list_keys_fails THEN <<>>
    ELSE Flatten([k \in 1..Len(user.keys) |-> AccessKey_1_3(user.keys[k])])

User_1_3(user) == Password_1_3(user) \o AccessKeys_1_3(user)

\* snapshot.users: the users list_users pages yield, in order;
\* snapshot.fail_after: NoFailure, or the number of users yielded before a
\* page request raises
check_control_1_3(snapshot) ==
    LET failed == snapshot.fail_after # NoFailure
        last == IF failed THEN snapshot.fail_after ELSE Len(snapshot.users)
        results == Flatten([u \in 1..last |-> User_1_3(snapshot.users[u])])
    IN  IF failed
        THEN Append(results,
                 ComplianceResult("1.3", INSUFFICIENT_DATA, "N/A", "IAM",
                     "Error during check: " \o QueryError,
                     "Review IAM permissions and retry"))
        ELSE results

AccessKey(id, days, fails) ==
    [AccessKeyId |-> id, LastUsedDate |-> days, last_used_fails |-> fails]

\* what list_users, list_access_keys and get_access_key_last_used report of
\* one user: password age in days, keys, and which nested call raises
UserShapes ==
    { [PasswordLastUsed |-> NeverUsed, list_keys_fails |-> FALSE, keys |-> <<>>],
      [PasswordLastUsed |-> 45, list_keys_fails |-> FALSE, keys |-> <<>>],
      [PasswordLastUsed |-> 46, list_keys_fails |-> FALSE, keys |-> <<>>],
      [PasswordLastUsed |-> NeverUsed, list_keys_fails |-> TRUE, keys |-> <<>>],
      [PasswordLastUsed |-> 10, list_keys_fails |-> TRUE, keys |-> <<>>],
      [PasswordLastUsed |-> NeverUsed, list_keys_fails |-> FALSE,
       keys |-> <<AccessKey("AKIA1", 46, FALSE)>>],
      [PasswordLastUsed |-> NeverUsed, list_keys_fails |-> FALSE,
       keys |-> <<AccessKey("AKIA1", 45, FALSE)>>],
      [PasswordLastUsed |-> NeverUsed, list_keys_fails |-> FALSE,
       keys |-> <<AccessKey("AKIA1", 46, TRUE)>>],
      [PasswordLastUsed |-> 44, list_keys_fails |-> FALSE,
       keys |-> <<AccessKey("AKIA1", 90, FALSE), AccessKey("AKIA2", NeverUsed, FALSE)>>] }

UserNames == <<"alice", "bob", "carol", "dave">>

\* the shape under a user name, its keys named after the user
NamedUser(name, shape) ==
    [UserName |-> name, PasswordLastUsed |-> shape.PasswordLastUsed,
     list_keys_fails |-> shape.list_keys_fails,
     keys |-> [k \in 1..Len(shape.keys) |->
                 AccessKey(name \o "-" \o shape.keys[k].AccessKeyId,
                           shape.keys[k].LastUsedDate,
                           shape.keys[k].last_used_fails)]]

UserLists ==
    UNION { { [u \in 1..n |-> NamedUser(UserNames[u], shapes[u])] :
              shapes \in [1..n -> UserShapes] } : n \in 0..MaxUsers }

Snapshots_1_3 ==
    UNION { { [users |-> l, fail_after |-> f] : f \in {NoFailure} \cup 0..Len(l) } :
            l \in UserLists }

-----------------------------------------------------------------------------
(* CISBenchmarkChecker.check_control_1_12 *)

\* account.summary_fails: get_account_summary raises;
\* account.AccountAccessKeysPresent: the SummaryMap entry (0 when absent)
check_control_1_12(account) ==
    IF account.summary_fails
    THEN <<ComplianceResult("1.12", INSUFFICIENT_DATA, "root", "IAM::Root",
              "Error during check: " \o QueryError,
              "Review IAM permissions and retry")>>
    ELSE IF account.AccountAccessKeysPresent > 0
    THEN <<ComplianceResult("1.12", NON_COMPLIANT, "root", "IAM::Root",
              "Root user has access keys",
              "Delete root user access keys immediately")>>
    ELSE <<ComplianceResult("1.12", COMPLIANT, "root", "IAM::Root",
              "No root user access keys found", "No action needed")>>

Snapshots_1_12 ==
    { [summary_fails |-> f, AccountAccessKeysPresent |-> n] :
        f \in BOOLEAN, n \in {0, 1, 2} }

-----------------------------------------------------------------------------
(* CISBenchmarkChecker.check_control_3_1 *)

MultiRegion_3_1(trail) ==
    IF trail.IsLogging
    THEN ComplianceResult("3.1", COMPLIANT, trail.Name, "CloudTrail::Trail",
             "Multi-region trail is active and logging", "No action needed")
    ELSE ComplianceResult("3.1", NON_COMPLIANT, trail.Name, "CloudTrail::Trail",
             "Multi-region trail exists but is not logging",
             "Start CloudTrail logging")

Failed_3_1 ==
    ComplianceResult("3.1", INSUFFICIENT_DATA, "N/A", "CloudTrail",
        "Error during check: " \o QueryError,
        "Review CloudTrail permissions and retry")

\* for trail in multi_region_trails: a get_trail_status that raises ends the
\* loop in the outer except, after the results appended so far
RECURSIVE scan_trails_3_1(_, _, _)
scan_trails_3_1(trails, t, results) ==
    IF t > Len(trails) THEN results
    ELSE IF trails[t].status_fails THEN Append(results, Failed_3_1)
    ELSE scan_trails_3_1(trails, t + 1, Append(results, MultiRegion_3_1(trails[t])))

\* snapshot.describe_fails: describe_trails raises; snapshot.trails: trailList
check_control_3_1(snapshot) ==
    IF snapshot.describe_fails THEN <<Failed_3_1>>
    ELSE LET multi_region_trails ==
                 SelectSeq(snapshot.trails, LAMBDA t : t.IsMultiRegionTrail)
         IN  IF multi_region_trails # <<>>
             THEN scan_trails_3_1(multi_region_trails, 1, <<>>)
             ELSE <<ComplianceResult("3.1", NON_COMPLIANT, "N/A", "CloudTrail",
                        "No multi-region CloudTrail found",
                        "Create and enable a multi-region CloudTrail")>>

-----------------------------------------------------------------------------
(* ExtendedCISChecker.check_control_1_5 and check_control_1_6 *)

MinPasswordLength == 14
MinReusePrevention == 24

\* check_control_1_5 without the NoSuchEntityException handler: a missing
\* policy falls into the generic handler
check_control_1_5_generic_handler(policy) ==
    IF policy.outcome # "ok"
    THEN <<ComplianceResult("1.5", INSUFFICIENT_DATA, "account", "IAM::PasswordPolicy",
              "Error during check: " \o QueryError,
              "Review IAM permissions and retry")>>
    ELSE IF policy.MinimumPasswordLength >= MinPasswordLength
    THEN <<ComplianceResult("1.5", COMPLIANT, "account", "IAM::PasswordPolicy",
              "Password minimum length is " \o ToString(policy.MinimumPasswordLength),
              "No action needed")>>
    ELSE <<ComplianceResult("1.5", NON_COMPLIANT, "account", "IAM::PasswordPolicy",
              "Password minimum length is "
                  \o ToString(policy.MinimumPasswordLength) \o ", should be 14+",
              "Update password policy to require minimum 14 characters")>>

\* policy.outcome: what get_account_password_policy does: "ok", "NoSuchEntity"
\* (NoSuchEntityException) or "error" (any other exception);
\* policy.MinimumPasswordLength, policy.PasswordReusePrevention: 0 when absent
check_control_1_5(policy) ==
    IF policy.outcome = "NoSuchEntity"
    THEN <<ComplianceResult("1.5", NON_COMPLIANT, "account", "IAM::PasswordPolicy",
              "No password policy configured",
              "Create IAM password policy with minimum 14 character length")>>
    ELSE IF policy.outcome # "ok"
    THEN <<ComplianceResult("1.5", INSUFFICIENT_DATA, "account", "IAM::PasswordPolicy",
              "Error during check: " \o QueryError,
              "Review IAM permissions and retry")>>
    ELSE IF policy.MinimumPasswordLength >= MinPasswordLength
    THEN <<ComplianceResult("1.5", COMPLIANT, "account", "IAM::PasswordPolicy",
              "Password minimum length is " \o ToString(policy.MinimumPasswordLength),
              "No action needed")>>
    ELSE <<ComplianceResult("1.5", NON_COMPLIANT, "account", "IAM::PasswordPolicy",
              "Password minimum length is "
                  \o ToString(policy.MinimumPasswordLength) \o ", should be 14+",
              "Update password policy to require minimum 14 characters")>>

check_control_1_6(policy) ==
    IF policy.outcome = "NoSuchEntity"
    THEN <<ComplianceResult("1.6", NON_COMPLIANT, "account", "IAM::PasswordPolicy",
              "No password policy configured",
              "Create IAM password policy with password reuse prevention")>>
    ELSE IF policy.outcome # "ok"
    THEN <<ComplianceResult("1.6", INSUFFICIENT_DATA, "account", "IAM::PasswordPolicy",
              "Error during check: " \o QueryError,
              "Review IAM permissions and retry")>>
    ELSE IF policy.PasswordReusePrevention >= MinReusePrevention
    THEN <<ComplianceResult("1.6", COMPLIANT, "account", "IAM::PasswordPolicy",
              "Password reuse prevention set to "
                  \o ToString(policy.PasswordReusePrevention),
              "No action needed")>>
    ELSE <<ComplianceResult("1.6", NON_COMPLIANT, "account", "IAM::PasswordPolicy",
              "Password reuse prevention is "
                  \o ToString(policy.PasswordReusePrevention) \o ", should be 24+",
              "Update password policy to prevent reuse of last 24 passwords")>>

PasswordPolicies ==
    { [outcome |-> o, MinimumPasswordLength |-> l, PasswordReusePrevention |-> r] :
        o \in {"ok", "NoSuchEntity", "error"}, l \in {0, 13, 14, 15},
        r \in {0, 23, 24, 25} }

-----------------------------------------------------------------------------
(* ExtendedCISChecker.check_control_3_2 *)

Trail_3_2(trail) ==
    IF trail.LogFileValidationEnabled
    THEN ComplianceResult("3.2", COMPLIANT, trail.Name, "CloudTrail::Trail",
             "Log file validation is enabled", "No action needed")
    ELSE ComplianceResult("3.2", NON_COMPLIANT, trail.Name, "CloudTrail::Trail",
             "Log file validation is disabled",
             "Enable log file validation for CloudTrail")

check_control_3_2(snapshot) ==
    IF snapshot.describe_fails
    THEN <<ComplianceResult("3.2", INSUFFICIENT_DATA, "N/A", "CloudTrail",
              "Error during check: " \o QueryError,
              "Review CloudTrail permissions and retry")>>
    ELSE IF snapshot.trails = <<>>
    THEN <<ComplianceResult("3.2", NON_COMPLIANT, "N/A", "CloudTrail",
              "No CloudTrail trails found",
              "Create CloudTrail with log file validation enabled")>>
    ELSE [t \in 1..Len(snapshot.trails) |-> Trail_3_2(snapshot.trails[t])]

-----------------------------------------------------------------------------
(* ExtendedCISChecker.check_control_3_3 *)

\* trail.get('S3BucketName') is None
NoBucket == ""

\* bucket.acl: "fails" (get_bucket_acl raises), "private", "public_read"
\*   (AllUsers/AuthenticatedUsers READ), "public_write" (WRITE);
\* bucket.policy: "none" (NoSuchBucketPolicy), "private", "public"
\*   (Principal '*' with Effect Allow), "fails" (any other exception);
\* bucket.block: "all" (the four settings true), "partial", "none"
\*   (NoSuchPublicAccessBlockConfiguration), "fails"
Bucket_3_3(name, bucket) ==
    LET fails == \/ bucket.acl = "fails"
                 \/ bucket.policy = "fails"
                 \/ bucket.block = "fails"
        public_read == \/ bucket.acl = "public_read"
                       \/ bucket.policy = "public"
                       \/ bucket.block \in {"partial", "none"}
        public_write == bucket.acl = "public_write"
    IN  IF fails
        THEN ComplianceResult("3.3", INSUFFICIENT_DATA, name, "S3::Bucket",
                 "Error checking bucket: " \o QueryError,
                 "Review S3 permissions and retry")
        ELSE IF public_read \/ public_write
        THEN ComplianceResult("3.3", NON_COMPLIANT, name, "S3::Bucket",
                 "CloudTrail S3 bucket has public access",
                 "Enable S3 public access block and review bucket policy/ACL")
        ELSE ComplianceResult("3.3", COMPLIANT, name, "S3::Bucket",
                 "CloudTrail S3 bucket is not publicly accessible",
                 "No action needed")

\* if not s3_bucket: continue
Trail_3_3(trail) ==
    IF trail.S3BucketName = NoBucket THEN <<>>
    ELSE <<Bucket_3_3(trail.S3BucketName, trail.bucket)>>

check_control_3_3(snapshot) ==
    IF snapshot.describe_fails
    THEN <<ComplianceResult("3.3", INSUFFICIENT_DATA, "N/A", "S3",
              "Error during check: " \o QueryError,
              "Review permissions and retry")>>
    ELSE IF snapshot.trails = <<>>
    THEN <<ComplianceResult("3.3", NOT_APPLICABLE, "N/A", "CloudTrail",
              "No CloudTrail trails found",
              "Create CloudTrail with secure S3 bucket")>>
    ELSE Flatten([t \in 1..Len(snapshot.trails) |-> Trail_3_3(snapshot.trails[t])])

\* what describe_trails, get_trail_status and the S3 calls report of a trail
Bucket(acl, policy, block) == [acl |-> acl, policy |-> policy, block |-> block]

TrailShapes ==
    { [IsMultiRegionTrail |-> TRUE, status_fails |-> FALSE, IsLogging |-> TRUE,
       LogFileValidationEnabled |-> TRUE, has_bucket |-> TRUE,
       bucket |-> Bucket("private", "none", "all")],
      [IsMultiRegionTrail |-> TRUE, status_fails |-> FALSE, IsLogging |-> FALSE,
       LogFileValidationEnabled |-> FALSE, has_bucket |-> TRUE,
       bucket |-> Bucket("public_read", "private", "all")],
      [IsMultiRegionTrail |-> TRUE, status_fails |-> TRUE, IsLogging |-> TRUE,
       LogFileValidationEnabled |-> TRUE, has_bucket |-> TRUE,
       bucket |-> Bucket("fails", "none", "all")],
      [IsMultiRegionTrail |-> FALSE, status_fails |-> FALSE, IsLogging |-> TRUE,
       LogFileValidationEnabled |-> TRUE, has_bucket |-> FALSE,
       bucket |-> Bucket("private", "none", "all")],
      [IsMultiRegionTrail |-> FALSE, status_fails |-> FALSE, IsLogging |-> TRUE,
       LogFileValidationEnabled |-> FALSE, has_bucket |-> TRUE,
       bucket |-> Bucket("private", "public", "none")],
      [IsMultiRegionTrail |-> TRUE, status_fails |-> FALSE, IsLogging |-> TRUE,
       LogFileValidationEnabled |-> TRUE, has_bucket |-> TRUE,
       bucket |-> Bucket("private", "private", "fails")] }

TrailNames == <<"trail-1", "trail-2", "trail-3", "trail-4">>

NamedTrail(name, shape) ==
    [Name |-> name, IsMultiRegionTrail |-> shape.IsMultiRegionTrail,
     status_fails |-> shape.status_fails, IsLogging |-> shape.IsLogging,
     LogFileValidationEnabled |-> shape.LogFileValidationEnabled,
     S3BucketName |-> IF shape.has_bucket THEN name \o "-logs" ELSE NoBucket,
     bucket |-> shape.bucket]

TrailLists ==
    UNION { { [t \in 1..n |-> NamedTrail(TrailNames[t], shapes[t])] :
              shapes \in [1..n -> TrailShapes] } : n \in 0..MaxTrails }

TrailSnapshots ==
    { [describe_fails |-> f, trails |-> l] : f \in BOOLEAN, l \in TrailLists }

-----------------------------------------------------------------------------
(* ExtendedCISChecker.check_control_3_8 *)

\* key.describe_fails: describe_key raises; key.KeyManager: "AWS" or
\* "CUSTOMER"; key.rotation_fails: get_key_rotation_status raises
Key_3_8(key) ==
    IF key.describe_fails \/ (key.KeyManager # "AWS" /\ key.rotation_fails)
    THEN <<ComplianceResult("3.8", INSUFFICIENT_DATA, key.KeyId, "KMS::Key",
              "Error checking key: " \o QueryError,
              "Review KMS permissions and retry")>>
    ELSE IF key.KeyManager = "AWS" THEN <<>>                \* continue
    ELSE IF key.KeyRotationEnabled
    THEN <<ComplianceResult("3.8", COMPLIANT, key.KeyId, "KMS::Key",
              "Key rotation is enabled", "No action needed")>>
    ELSE <<ComplianceResult("3.8", NON_COMPLIANT, key.KeyId, "KMS::Key",
              "Key rotation is disabled", "Enable automatic key rotation")>>

\* snapshot.keys: the keys the list_keys pages yield; snapshot.fail_after:
\* NoFailure, or the number of keys yielded before a page request raises
check_control_3_8(snapshot) ==
    LET failed == snapshot.fail_after # NoFailure
        last == IF failed THEN snapshot.fail_after ELSE Len(snapshot.keys)
        results == Flatten([k \in 1..last |-> Key_3_8(snapshot.keys[k])])
    IN  IF failed
        THEN Append(results,
                 ComplianceResult("3.8", INSUFFICIENT_DATA, "N/A", "KMS",
                     "Error during check: " \o QueryError,
                     "Review KMS permissions and retry"))
        ELSE results

KeyShapes ==
    { [describe_fails |-> TRUE, KeyManager |-> "CUSTOMER", rotation_fails |-> FALSE,
       KeyRotationEnabled |-> TRUE],
      [describe_fails |-> FALSE, KeyManager |-> "AWS", rotation_fails |-> TRUE,
       KeyRotationEnabled |-> FALSE],
      [describe_fails |-> FALSE, KeyManager |-> "CUSTOMER", rotation_fails |-> TRUE,
       KeyRotationEnabled |-> TRUE],
      [describe_fails |-> FALSE, KeyManager |-> "CUSTOMER", rotation_fails |-> FALSE,
       KeyRotationEnabled |-> TRUE],
      [describe_fails |-> FALSE, KeyManager |-> "CUSTOMER", rotation_fails |-> FALSE,
       KeyRotationEnabled |-> FALSE] }

KeyIds == <<"key-1", "key-2", "key-3", "key-4">>

NamedKey(id, shape) ==
    [KeyId |-> id, describe_fails |-> shape.describe_fails,
     KeyManager |-> shape.KeyManager, rotation_fails |-> shape.rotation_fails,
     KeyRotationEnabled |-> shape.KeyRotationEnabled]

KeyLists ==
    UNION { { [k \in 1..n |-> NamedKey(KeyIds[k], shapes[k])] :
              shapes \in [1..n -> KeyShapes] } : n \in 0..MaxKeys }

Snapshots_3_8 ==
    UNION { { [keys |-> l, fail_after |-> f] : f \in {NoFailure} \cup 0..Len(l) } :
            l \in KeyLists }

-----------------------------------------------------------------------------
(* ExtendedCISChecker.check_control_5_5 *)

\* vpc_flow_logs[vpc_id]: the flow logs with ResourceType 'VPC' of the VPC
vpc_flow_logs(flow_logs, vpc_id) ==
    SelectSeq(flow_logs,
              LAMBDA fl : fl.ResourceType = "VPC" /\ fl.ResourceId = vpc_id)

Vpc_5_5(vpc_id, flow_logs) ==
    LET mine == vpc_flow_logs(flow_logs, vpc_id)
        active_flow_logs == SelectSeq(mine, LAMBDA fl : fl.FlowLogStatus = "ACTIVE")
    IN  IF mine = <<>>
        THEN ComplianceResult("5.5", NON_COMPLIANT, vpc_id, "EC2::VPC",
                 "No VPC Flow Logs configured", "Enable VPC Flow Logs")
        ELSE IF active_flow_logs # <<>>
        THEN ComplianceResult("5.5", COMPLIANT, vpc_id, "EC2::VPC",
                 "VPC Flow Logs are enabled", "No action needed")
        ELSE ComplianceResult("5.5", NON_COMPLIANT, vpc_id, "EC2::VPC",
                 "VPC Flow Logs exist but are not active", "Activate VPC Flow Logs")

\* snapshot.vpcs_fail: describe_vpcs raises; snapshot.flow_logs_fail:
\* describe_flow_logs raises; both are called before any result is built
check_control_5_5(snapshot) ==
    IF snapshot.vpcs_fail \/ snapshot.flow_logs_fail
    THEN <<ComplianceResult("5.5", INSUFFICIENT_DATA, "N/A", "EC2::VPC",
              "Error during check: " \o QueryError,
              "Review EC2 permissions and retry")>>
    ELSE [v \in 1..Len(snapshot.vpcs) |->
              Vpc_5_5(snapshot.vpcs[v], snapshot.flow_logs)]

VpcIds == <<"vpc-1", "vpc-2", "vpc-3", "vpc-4">>

FlowLog(type, id, status) ==
    [ResourceType |-> type, ResourceId |-> id, FlowLogStatus |-> status]

FlowLogLists ==
    { <<>>,
      <<FlowLog("VPC", "vpc-1", "ACTIVE")>>,
      <<FlowLog("VPC", "vpc-1", "INACTIVE")>>,
      <<FlowLog("Subnet", "vpc-1", "ACTIVE")>>,
      <<FlowLog("VPC", "vpc-1", "INACTIVE"), FlowLog("VPC", "vpc-1", "ACTIVE")>>,
      <<FlowLog("VPC", "vpc-2", "ACTIVE"), FlowLog("VPC", "vpc-1", "INACTIVE")>> }

Snapshots_5_5 ==
    { [vpcs_fail |-> vf, flow_logs_fail |-> ff,
       vpcs |-> [v \in 1..n |-> VpcIds[v]], flow_logs |-> fls] :
        vf \in BOOLEAN, ff \in BOOLEAN, n \in 0..MaxVpcs, fls \in FlowLogLists }

-----------------------------------------------------------------------------
(* KubernetesCISChecker: ComplianceResult carries namespace instead of *)
(* region and account_id *)

\* namespace=None
NoNamespace == ""

K8sResult(cid, st, rid, rtype, why, fix, ns) ==
    [control_id |-> cid, status |-> st, resource_id |-> rid,
     resource_type |-> rtype, reason |-> why, remediation |-> fix,
     namespace |-> ns]

-----------------------------------------------------------------------------
(* KubernetesCISChecker.check_api_server_anonymous_auth: returns one *)
(* ComplianceResult, not a list *)

\* the first container with a command that lacks --anonymous-auth=false
RECURSIVE first_anonymous_container(_, _)
first_anonymous_container(containers, c) ==
    IF c > Len(containers) THEN 0
    ELSE IF containers[c].has_command /\ ~containers[c].anonymous_auth_false THEN c
    ELSE first_anonymous_container(containers, c + 1)

RECURSIVE first_anonymous_pod(_, _)
first_anonymous_pod(pods, p) ==
    IF p > Len(pods) THEN 0
    ELSE IF first_anonymous_container(pods[p].containers, 1) # 0 THEN p
    ELSE first_anonymous_pod(pods, p + 1)

\* snapshot.list_fails: list_namespaced_pod("kube-system") raises;
\* snapshot.pods: the pods labelled component=kube-apiserver
check_api_server_anonymous_auth(snapshot) ==
    IF snapshot.list_fails
    THEN K8sResult("1.2.1", INSUFFICIENT_DATA, "kube-apiserver", "Component",
             "Unable to check API server configuration: " \o QueryError,
             "Ensure access to kube-system namespace and API server pods",
             NoNamespace)
    ELSE LET p == first_anonymous_pod(snapshot.pods, 1)
         IN  IF p # 0
             THEN K8sResult("1.2.1", NON_COMPLIANT, snapshot.pods[p].name, "Pod",
                      "API server does not have --anonymous-auth=false",
                      "Add --anonymous-auth=false to API server configuration",
                      snapshot.pods[p].namespace)
             ELSE K8sResult("1.2.1", COMPLIANT, "kube-apiserver", "Component",
                      "Anonymous authentication is disabled", "No action required",
                      NoNamespace)

ApiServerPod(name, containers) ==
    [name |-> name, namespace |-> "kube-system", containers |-> containers]

ApiContainer(cmd, off) == [has_command |-> cmd, anonymous_auth_false |-> off]

Snapshots_1_2_1 ==
    { [list_fails |-> f, pods |-> l] :
        f \in BOOLEAN,
        l \in { <<>>,
                <<ApiServerPod("kube-apiserver-a", <<ApiContainer(TRUE, TRUE)>>)>>,
                <<ApiServerPod("kube-apiserver-a", <<ApiContainer(TRUE, FALSE)>>)>>,
                <<ApiServerPod("kube-apiserver-a", <<ApiContainer(FALSE, FALSE)>>)>>,
                <<ApiServerPod("kube-apiserver-a", <<ApiContainer(TRUE, TRUE)>>),
                  ApiServerPod("kube-apiserver-b",
                               <<ApiContainer(TRUE, TRUE), ApiContainer(TRUE, FALSE)>>)>> } }

-----------------------------------------------------------------------------
(* KubernetesCISChecker.check_rbac_cluster_admin_usage *)

Subject_5_1_1(binding, subject) ==
    IF subject.kind = "ServiceAccount" /\ subject.name # "cluster-admin"
    THEN <<K8sResult("5.1.1", NON_COMPLIANT, binding.name, "ClusterRoleBinding",
              "Service account " \o subject.name \o " has cluster-admin privileges",
              "Review and limit cluster-admin role assignments",
              subject.namespace)>>
    ELSE <<>>

Binding_5_1_1(binding) ==
    IF binding.role_ref = "cluster-admin"
    THEN Flatten([j \in 1..Len(binding.subjects) |->
                     Subject_5_1_1(binding, binding.subjects[j])])
    ELSE <<>>

\* snapshot.list_fails: list_cluster_role_binding raises
check_rbac_cluster_admin_usage(snapshot) ==
    IF snapshot.list_fails
    THEN <<K8sResult("5.1.1", INSUFFICIENT_DATA, "cluster-admin", "RBAC",
              "Unable to check RBAC configuration: " \o QueryError,
              "Ensure proper RBAC permissions to view ClusterRoleBindings",
              NoNamespace)>>
    ELSE LET results == Flatten([b \in 1..Len(snapshot.bindings) |->
                                    Binding_5_1_1(snapshot.bindings[b])])
         IN  IF results = <<>>
             THEN <<K8sResult("5.1.1", COMPLIANT, "cluster-admin-usage", "RBAC",
                       "Cluster-admin role usage appears appropriate",
                       "No action required", NoNamespace)>>
             ELSE results

Subject(kind, name, ns) == [kind |-> kind, name |-> name, namespace |-> ns]

Binding(name, role, subjects) ==
    [name |-> name, role_ref |-> role, subjects |-> subjects]

Snapshots_5_1_1 ==
    { [list_fails |-> f, bindings |-> l] :
        f \in BOOLEAN,
        l \in { <<>>,
                <<Binding("admins", "cluster-admin", <<Subject("User", "root", NoNamespace)>>)>>,
                <<Binding("ci", "cluster-admin", <<Subject("ServiceAccount", "ci", "build")>>)>>,
                <<Binding("viewers", "view", <<Subject("ServiceAccount", "ci", "build")>>)>>,
                <<Binding("ops", "cluster-admin",
                          <<Subject("ServiceAccount", "cluster-admin", "kube-system"),
                            Subject("ServiceAccount", "ci", "build"),
                            Subject("ServiceAccount", "cd", "deploy")>>),
                  Binding("empty", "cluster-admin", <<>>)>> } }

-----------------------------------------------------------------------------
(* KubernetesCISChecker.check_wildcard_rbac_usage *)

\* ', '.join(wildcard_details)
wildcard_details(rule) ==
    LET v == IF rule.verbs THEN <<"verbs">> ELSE <<>>
        r == IF rule.resources THEN <<"resources">> ELSE <<>>
        g == IF rule.api_groups THEN <<"apiGroups">> ELSE <<>>
        d == v \o r \o g
    IN  IF Len(d) = 1 THEN d[1]
        ELSE IF Len(d) = 2 THEN d[1] \o ", " \o d[2]
        ELSE d[1] \o ", " \o d[2] \o ", " \o d[3]

\* a rule records, per field, whether "*" is in verbs, resources, api_groups
has_wildcard(rule) == rule.verbs \/ rule.resources \/ rule.api_groups

ClusterRole_5_1_3(role) ==
    Flatten([j \in 1..Len(role.rules) |->
        IF has_wildcard(role.rules[j]) /\ role.name \notin {"cluster-admin", "admin"}
        THEN <<K8sResult("5.1.3", NON_COMPLIANT, role.name, "ClusterRole",
                  "Role uses wildcards in: " \o wildcard_details(role.rules[j]),
                  "Replace wildcards with specific permissions", NoNamespace)>>
        ELSE <<>>])

Role_5_1_3(role) ==
    Flatten([j \in 1..Len(role.rules) |->
        IF has_wildcard(role.rules[j])
        THEN <<K8sResult("5.1.3", NON_COMPLIANT, role.name, "Role",
                  "Role uses wildcards in: " \o wildcard_details(role.rules[j]),
                  "Replace wildcards with specific permissions", role.namespace)>>
        ELSE <<>>])

Failed_5_1_3 ==
    K8sResult("5.1.3", INSUFFICIENT_DATA, "wildcard-rbac", "RBAC",
        "Unable to check RBAC wildcard usage: " \o QueryError,
        "Ensure proper permissions to view Roles and ClusterRoles", NoNamespace)

\* snapshot.cluster_roles_fail: list_cluster_role raises;
\* snapshot.roles_fail: list_role_for_all_namespaces raises, after the
\* cluster roles have been examined
check_wildcard_rbac_usage(snapshot) ==
    IF snapshot.cluster_roles_fail THEN <<Failed_5_1_3>>
    ELSE LET cluster == Flatten([c \in 1..Len(snapshot.cluster_roles) |->
                                    ClusterRole_5_1_3(snapshot.cluster_roles[c])])
             results == cluster \o Flatten([r \in 1..Len(snapshot.roles) |->
                                               Role_5_1_3(snapshot.roles[r])])
         IN  IF snapshot.roles_fail THEN Append(cluster, Failed_5_1_3)
             ELSE IF results = <<>>
             THEN <<K8sResult("5.1.3", COMPLIANT, "wildcard-usage", "RBAC",
                       "No inappropriate wildcard usage found in RBAC",
                       "No action required", NoNamespace)>>
             ELSE results

RbacRule(v, r, g) == [verbs |-> v, resources |-> r, api_groups |-> g]

RbacRole(name, ns, rules) == [name |-> name, namespace |-> ns, rules |-> rules]

ClusterRoleLists ==
    { <<>>,
      <<RbacRole("cluster-admin", NoNamespace, <<RbacRule(TRUE, TRUE, TRUE)>>)>>,
      <<RbacRole("view", NoNamespace, <<RbacRule(FALSE, FALSE, FALSE)>>)>>,
      <<RbacRole("ops", NoNamespace,
                 <<RbacRule(TRUE, FALSE, FALSE), RbacRule(FALSE, TRUE, TRUE)>>)>> }

RoleLists ==
    { <<>>,
      <<RbacRole("reader", "build", <<RbacRule(FALSE, FALSE, FALSE)>>)>>,
      <<RbacRole("admin", "build", <<RbacRule(TRUE, TRUE, FALSE)>>)>> }

Snapshots_5_1_3 ==
    { [cluster_roles_fail |-> cf, roles_fail |-> rf, cluster_roles |-> c, roles |-> r] :
        cf \in BOOLEAN, rf \in BOOLEAN, c \in ClusterRoleLists, r \in RoleLists }

-----------------------------------------------------------------------------
(* KubernetesCISChecker.check_pod_security_policies *)

SkippedNamespaces_5_2 == {"kube-system", "kube-public", "kube-node-lease"}

\* the three host-namespace checks, made only under
\* `if pod.spec.security_context:`
HostNamespaces_5_2(pod) ==
    IF ~pod.security_context THEN <<>>
    ELSE (IF pod.host_pid
          THEN <<K8sResult("5.2.2", NON_COMPLIANT, pod.name, "Pod",
                    "Pod shares host PID namespace",
                    "Set hostPID: false in pod specification", pod.namespace)>>
          ELSE <<>>)
      \o (IF pod.host_ipc
          THEN <<K8sResult("5.2.3", NON_COMPLIANT, pod.name, "Pod",
                    "Pod shares host IPC namespace",
                    "Set hostIPC: false in pod specification", pod.namespace)>>
          ELSE <<>>)
      \o (IF pod.host_network
          THEN <<K8sResult("5.2.4", NON_COMPLIANT, pod.name, "Pod",
                    "Pod shares host network namespace",
                    "Set hostNetwork: false in pod specification", pod.namespace)>>
          ELSE <<>>)

\* container.escalates: it has a security_context whose
\* allow_privilege_escalation is True
Containers_5_2(pod) ==
    Flatten([c \in 1..Len(pod.containers) |->
        IF pod.containers[c].escalates
        THEN <<K8sResult("5.2.5", NON_COMPLIANT,
                  pod.name \o "/" \o pod.containers[c].name, "Container",
                  "Container allows privilege escalation",
                  "Set allowPrivilegeEscalation: false in container securityContext",
                  pod.namespace)>>
        ELSE <<>>])

DefaultNamespace_5_2(pod) ==
    IF pod.namespace = "default"
    THEN <<K8sResult("5.7.4", NON_COMPLIANT, pod.name, "Pod",
              "Pod running in default namespace",
              "Move workloads to dedicated namespaces", pod.namespace)>>
    ELSE <<>>

Pod_5_2(pod) ==
    IF pod.namespace \in SkippedNamespaces_5_2 THEN <<>>
    ELSE HostNamespaces_5_2(pod) \o Containers_5_2(pod) \o DefaultNamespace_5_2(pod)

\* snapshot.list_fails: list_pod_for_all_namespaces raises
check_pod_security_policies(snapshot) ==
    IF snapshot.list_fails
    THEN <<K8sResult("5.2.x", INSUFFICIENT_DATA, "pod-security", "Pod",
              "Unable to check pod security policies: " \o QueryError,
              "Ensure proper permissions to view pods", NoNamespace)>>
    ELSE Flatten([p \in 1..Len(snapshot.pods) |-> Pod_5_2(snapshot.pods[p])])

Container(name, escalates) == [name |-> name, escalates |-> escalates]

PodShapes ==
    { [namespace |-> "prod", security_context |-> FALSE, host_pid |-> FALSE,
       host_ipc |-> FALSE, host_network |-> FALSE,
       containers |-> <<Container("app", FALSE)>>],
      [namespace |-> "prod", security_context |-> FALSE, host_pid |-> TRUE,
       host_ipc |-> FALSE, host_network |-> TRUE,
       containers |-> <<Container("app", FALSE)>>],
      [namespace |-> "prod", security_context |-> TRUE, host_pid |-> TRUE,
       host_ipc |-> TRUE, host_network |-> TRUE,
       containers |-> <<Container("app", TRUE), Container("sidecar", FALSE)>>],
      [namespace |-> "prod", security_context |-> TRUE, host_pid |-> FALSE,
       host_ipc |-> FALSE, host_network |-> FALSE,
       containers |-> <<Container("app", FALSE)>>],
      [namespace |-> "default", security_context |-> FALSE, host_pid |-> FALSE,
       host_ipc |-> FALSE, host_network |-> FALSE,
       containers |-> <<Container("app", FALSE)>>],
      [namespace |-> "kube-system", security_context |-> TRUE, host_pid |-> TRUE,
       host_ipc |-> FALSE, host_network |-> TRUE,
       containers |-> <<Container("proxy", TRUE)>>] }

PodNames == <<"pod-1", "pod-2", "pod-3", "pod-4">>

NamedPod(name, shape) ==
    [name |-> name, namespace |-> shape.namespace,
     security_context |-> shape.security_context, host_pid |-> shape.host_pid,
     host_ipc |-> shape.host_ipc, host_network |-> shape.host_network,
     containers |-> shape.containers]

PodLists ==
    UNION { { [p \in 1..n |-> NamedPod(PodNames[p], shapes[p])] :
              shapes \in [1..n -> PodShapes] } : n \in 0..MaxPods }

Snapshots_5_2_x == { [list_fails |-> f, pods |-> l] : f \in BOOLEAN, l \in PodLists }

-----------------------------------------------------------------------------
(* KubernetesCISChecker.check_network_policies *)

SkippedNamespaces_5_3_2 == {"kube-system", "kube-public", "kube-node-lease", "default"}

\* ns.policies_fail: list_namespaced_network_policy raises; ns.pods_fail:
\* list_namespaced_pod raises; either is logged as a warning and adds nothing
Namespace_5_3_2(ns) ==
    IF ns.name \in SkippedNamespaces_5_3_2 THEN <<>>
    ELSE IF ns.policies_fail THEN <<>>
    ELSE IF ns.has_policies THEN <<>>
    ELSE IF ns.pods_fail THEN <<>>
    ELSE IF ns.has_pods
    THEN <<K8sResult("5.3.2", NON_COMPLIANT, ns.name, "Namespace",
              "Namespace has pods but no network policies",
              "Create network policies to control pod-to-pod communication",
              ns.name)>>
    ELSE <<>>

\* snapshot.list_fails: list_namespace raises
check_network_policies(snapshot) ==
    IF snapshot.list_fails
    THEN <<K8sResult("5.3.2", INSUFFICIENT_DATA, "network-policies", "NetworkPolicy",
              "Unable to check network policies: " \o QueryError,
              "Ensure proper permissions to view namespaces and network policies",
              NoNamespace)>>
    ELSE LET results == Flatten([n \in 1..Len(snapshot.namespaces) |->
                                    Namespace_5_3_2(snapshot.namespaces[n])])
         IN  IF results = <<>>
             THEN <<K8sResult("5.3.2", COMPLIANT, "network-policies", "NetworkPolicy",
                       "All namespaces with workloads have network policies or are system namespaces",
                       "No action required", NoNamespace)>>
             ELSE results

Namespace(name, pf, hp, qf, pods) ==
    [name |-> name, policies_fail |-> pf, has_policies |-> hp,
     pods_fail |-> qf, has_pods |-> pods]

NamespaceShapes ==
    { [policies_fail |-> FALSE, has_policies |-> TRUE, pods_fail |-> FALSE, has_pods |-> TRUE],
      [policies_fail |-> FALSE, has_policies |-> FALSE, pods_fail |-> FALSE, has_pods |-> TRUE],
      [policies_fail |-> FALSE, has_policies |-> FALSE, pods_fail |-> FALSE, has_pods |-> FALSE],
      [policies_fail |-> TRUE, has_policies |-> FALSE, pods_fail |-> FALSE, has_pods |-> TRUE],
      [policies_fail |-> FALSE, has_policies |-> FALSE, pods_fail |-> TRUE, has_pods |-> TRUE] }

NamespaceNames == <<"prod", "staging", "dev", "test">>

NamespaceLists ==
    UNION { { <<Namespace("kube-system", FALSE, FALSE, FALSE, TRUE)>>
              \o [n \in 1..k |->
                     Namespace(NamespaceNames[n], shapes[n].policies_fail,
                               shapes[n].has_policies, shapes[n].pods_fail,
                               shapes[n].has_pods)] :
              shapes \in [1..k -> NamespaceShapes] } : k \in 0..MaxNamespaces }

Snapshots_5_3_2 ==
    { [list_fails |-> f, namespaces |-> l] : f \in BOOLEAN, l \in NamespaceLists }

-----------------------------------------------------------------------------
(* Specification of one evaluator call on a bounded snapshot *)

RunIdle ==
    /\ platform = "none" /\ CONTROL_IDS = [set |-> FALSE, value |-> <<>>]
    /\ control_ids = [given |-> FALSE, ids |-> <<>>]
    /\ env = "none" /\ pc = "idle" /\ loop_ids = <<>>
    /\ idx = 0 /\ all_results = <<>> /\ invoked = <<>>

ReportIdle ==
    /\ component = "none" /\ report_results = <<>> /\ output_format = "none"
    /\ report_pc = "idle" /\ report = <<>>

Running == [exited |-> FALSE, code |-> 0]

MainIdle == setup = "ok" /\ exit_status = Running

HubIdle ==
    /\ hub_results = <<>> /\ findings = <<>> /\ hub_pc = "idle" /\ hub_i = 0
    /\ submissions = <<>>

TwiceIdle == now = 0 /\ ev_first = <<>>

RemIdle ==
    /\ rem_op = "none" /\ rem_in = <<>> /\ rem_pc = "idle"
    /\ rules_to_revoke = <<>> /\ rules_to_add = <<>> /\ rem_i = 0
    /\ remediation_plan = <<>> /\ ec2_calls = <<>> /\ rem_out = <<>>

FlowIdle ==
    /\ flow_event = <<>> /\ flow_world = <<>> /\ flow_pc = "idle"
    /\ region_i = 0 /\ vpc_i = 0 /\ total_processed = 0
    /\ flow_calls = <<>> /\ flow_response = <<>>

HandlerIdle ==
    /\ handler_config = <<>> /\ handler_results = <<>> /\ handler_pc = "idle"
    /\ handler_log = <<>> /\ handler_response = <<>>


\* the evaluators and the snapshots each is called on
EvalInputs(ctl) ==
    CASE ctl = "1.3" -> Snapshots_1_3
      [] ctl = "1.12" -> Snapshots_1_12
      [] ctl = "3.1" -> TrailSnapshots
      [] ctl = "5.2" -> Snapshots_5_2
      [] ctl = "1.5" -> PasswordPolicies
      [] ctl = "1.6" -> PasswordPolicies
      [] ctl = "3.2" -> TrailSnapshots
      [] ctl = "3.3" -> TrailSnapshots
      [] ctl = "3.8" -> Snapshots_3_8
      [] ctl = "5.5" -> Snapshots_5_5
      [] ctl = "1.2.1" -> Snapshots_1_2_1
      [] ctl = "5.1.1" -> Snapshots_5_1_1
      [] ctl = "5.1.3" -> Snapshots_5_1_3
      [] ctl = "5.2.x" -> Snapshots_5_2_x
      [] ctl = "5.3.2" -> Snapshots_5_3_2

AwsEvaluators == {"1.3", "1.12", "3.1", "5.2", "1.5", "1.6", "3.2", "3.3", "3.8", "5.5"}
K8sEvaluators == {"1.2.1", "5.1.1", "5.1.3", "5.2.x", "5.3.2"}

EvalInit ==
    /\ ev_ctl \in AwsEvaluators \cup K8sEvaluators
    /\ ev_in \in EvalInputs(ev_ctl)
    /\ ev_pc = "ready" /\ ev_out = <<>>
    /\ RunIdle
    /\ ReportIdle
    /\ MainIdle
    /\ HubIdle
    /\ TwiceIdle
    /\ RemIdle /\ FlowIdle /\ HandlerIdle

\* one call of the evaluator of control ctl; out is the list it returns
Call(ctl, out) ==
    /\ ev_pc = "ready" /\ ev_ctl = ctl
    /\ ev_out' = out
    /\ ev_pc' = "returned"
    /\ UNCHANGED <<ev_ctl, ev_in>>
    /\ UNCHANGED not_ev_vars

Call_check_control_1_3 == Call("1.3", check_control_1_3(ev_in))
Call_check_control_1_12 == Call("1.12", check_control_1_12(ev_in))
Call_check_control_3_1 == Call("3.1", check_control_3_1(ev_in))
Call_check_control_5_2 == Call("5.2", check_control_5_2(ev_in))
Call_check_control_1_5 == Call("1.5", check_control_1_5(ev_in))
Call_check_control_1_6 == Call("1.6", check_control_1_6(ev_in))
Call_check_control_3_2 == Call("3.2", check_control_3_2(ev_in))
Call_check_control_3_3 == Call("3.3", check_control_3_3(ev_in))
Call_check_control_3_8 == Call("3.8", check_control_3_8(ev_in))
Call_check_control_5_5 == Call("5.5", check_control_5_5(ev_in))
\* the one evaluator that returns a single result: the caller appends it
Call_check_api_server_anonymous_auth ==
    Call("1.2.1", <<check_api_server_anonymous_auth(ev_in)>>)
Call_check_rbac_cluster_admin_usage ==
    Call("5.1.1", check_rbac_cluster_admin_usage(ev_in))
Call_check_wildcard_rbac_usage == Call("5.1.3", check_wildcard_rbac_usage(ev_in))
Call_check_pod_security_policies == Call("5.2.x", check_pod_security_policies(ev_in))
Call_check_network_policies == Call("5.3.2", check_network_policies(ev_in))

EvalNext ==
    \/ Call_check_control_1_3
    \/ Call_check_control_1_12
    \/ Call_check_control_3_1
    \/ Call_check_control_5_2
    \/ Call_check_control_1_5
    \/ Call_check_control_1_6
    \/ Call_check_control_3_2
    \/ Call_check_control_3_3
    \/ Call_check_control_3_8
    \/ Call_check_control_5_5
    \/ Call_check_api_server_anonymous_auth
    \/ Call_check_rbac_cluster_admin_usage
    \/ Call_check_wildcard_rbac_usage
    \/ Call_check_pod_security_policies
    \/ Call_check_network_policies

SpecEval == EvalInit /\ [][EvalNext]_vars

-----------------------------------------------------------------------------
(* Claims about control 5.2, checked under SpecEval *)

Returned52 == ev_ctl = "5.2" /\ ev_pc = "returned"
ResultsFor(out, rid) == SelectSeq(out, LAMBDA r : r.resource_id = rid)

\* the matching rule as the specification words it: source 0.0.0.0/0 and
\* protocol '-1', or tcp with an administrative port inside [FromPort, ToPort]
UnrestrictedAdminIngress(rule) ==
    /\ \E r \in 1..Len(rule.IpRanges) : rule.IpRanges[r] = "0.0.0.0/0"
    /\ \/ rule.IpProtocol = "-1"
       \/ /\ rule.IpProtocol = "tcp"
          /\ rule.FromPort # NoPort /\ rule.ToPort # NoPort
          /\ \E port \in {22, 3389, 5985, 5986} :
                rule.FromPort <= port /\ port <= rule.ToPort

HasUnrestrictedAdminIngress(sg) ==
    \E i \in 1..Len(sg.IpPermissions) : UnrestrictedAdminIngress(sg.IpPermissions[i])

\* C9: a security group is NON_COMPLIANT exactly when one of its ingress rules
\* is open to 0.0.0.0/0 on protocol '-1' or on tcp with an administrative port
\* in [FromPort, ToPort], for every port pair (also ranges starting at port 0);
\* every other security group is COMPLIANT.
C9_ExactClassification ==
    (Returned52 /\ ev_in.fail_after = NoFailure) =>
        \A g \in 1..Len(ev_in.sgs) :
            LET sg == ev_in.sgs[g]
                mine == ResultsFor(ev_out, sg.GroupId)
            IN  /\ mine # <<>>
                /\ \A k \in 1..Len(mine) :
                      mine[k].status = IF HasUnrestrictedAdminIngress(sg)
                                       THEN NON_COMPLIANT ELSE COMPLIANT

\* C10: when the listing succeeds, control 5.2 returns exactly one result per
\* security group of the snapshot, NON_COMPLIANT or COMPLIANT, never both,
\* however many rules of the group match.
C10_OneResultPerGroup ==
    (Returned52 /\ ev_in.fail_after = NoFailure) =>
        /\ Len(ev_out) = Len(ev_in.sgs)
        /\ \A g \in 1..Len(ev_in.sgs) :
              LET mine == ResultsFor(ev_out, ev_in.sgs[g].GroupId)
              IN  /\ Len(mine) = 1
                  /\ mine[1].status \in {COMPLIANT, NON_COMPLIANT}
                  /\ mine[1].control_id = "5.2"

\* a returned run over two groups, one with several matching rules (one
\* NON_COMPLIANT result for it) and one with none (one COMPLIANT result)
C10_Witness ==
    /\ Returned52 /\ ev_in.fail_after = NoFailure
    /\ Len(ev_in.sgs) = 2
    /\ ev_in.sgs[1].IpPermissions = <<SshWorld, WinRmWorld, AllWorld>>
    /\ ev_in.sgs[2].IpPermissions = <<RdpPrivate, UdpWorld>>
    /\ Len(ev_out) = 2
    /\ ev_out[1].status = NON_COMPLIANT /\ ev_out[1].resource_id = "sg-1"
    /\ ev_out[2].status = COMPLIANT /\ ev_out[2].resource_id = "sg-2"

-----------------------------------------------------------------------------
(* Claims about every evaluator, checked under SpecEval *)

Returned == ev_pc = "returned"

IsInsufficient(r) == r.status = INSUFFICIENT_DATA

\* the listing of a paginated evaluator raised
ListingFailed(in) == in.fail_after # NoFailure

\* the resources a paginated evaluator got to see before the listing raised
Seen(in, list) ==
    SubSeq(list, 1, IF ListingFailed(in) THEN in.fail_after ELSE Len(list))

\* some query the evaluator issued on this input raised
QueryFailed(ctl, in) ==
    CASE ctl = "1.3" ->
           \/ ListingFailed(in)
           \/ \E u \in 1..Len(Seen(in, in.users)) :
                 \/ in.users[u].list_keys_fails
                 \/ \E k \in 1..Len(in.users[u].keys) :
                       in.users[u].keys[k].last_used_fails
      [] ctl = "1.12" -> in.summary_fails
      [] ctl = "3.1" ->
           \/ in.describe_fails
           \/ \E t \in 1..Len(in.trails) :
                 in.trails[t].IsMultiRegionTrail /\ in.trails[t].status_fails
      [] ctl = "5.2" -> ListingFailed(in)
      [] ctl \in {"1.5", "1.6"} -> in.outcome = "error"
      [] ctl = "3.2" -> in.describe_fails
      [] ctl = "3.3" ->
           \/ in.describe_fails
           \/ \E t \in 1..Len(in.trails) :
                 /\ in.trails[t].S3BucketName # NoBucket
                 /\ "fails" \in {in.trails[t].bucket.acl, in.trails[t].bucket.policy,
                                 in.trails[t].bucket.block}
      [] ctl = "3.8" ->
           \/ ListingFailed(in)
           \/ \E k \in 1..Len(Seen(in, in.keys)) :
                 \/ in.keys[k].describe_fails
                 \/ in.keys[k].KeyManager # "AWS" /\ in.keys[k].rotation_fails
      [] ctl = "5.5" -> in.vpcs_fail \/ in.flow_logs_fail
      [] ctl \in {"1.2.1", "5.1.1", "5.2.x"} -> in.list_fails
      [] ctl = "5.1.3" -> in.cluster_roles_fail \/ in.roles_fail
      [] ctl = "5.3.2" ->
           \/ in.list_fails
           \/ \E n \in 1..Len(in.namespaces) :
                 /\ in.namespaces[n].name \notin SkippedNamespaces_5_3_2
                 /\ \/ in.namespaces[n].policies_fail
                    \/ ~in.namespaces[n].has_policies /\ in.namespaces[n].pods_fail

\* the reasons that carry the failure description
FailureReasons ==
    { prefix \o QueryError :
        prefix \in {"Error during check: ", "Error checking bucket: ",
                    "Error checking key: ",
                    "Unable to check API server configuration: ",
                    "Unable to check RBAC configuration: ",
                    "Unable to check RBAC wildcard usage: ",
                    "Unable to check pod security policies: ",
                    "Unable to check network policies: "} }

\* C2: when a query an evaluator issues fails (the listing or a nested
\* per-resource call), the evaluator returns a list that contains exactly one
\* INSUFFICIENT_DATA result, whose reason carries the failure description.
C2_OneInsufficientOnFailure ==
    (Returned /\ QueryFailed(ev_ctl, ev_in)) =>
        LET bad == SelectSeq(ev_out, IsInsufficient)
        IN  Len(bad) = 1 /\ bad[1].reason \in FailureReasons

\* C8: every evaluator returns a non-empty result sequence, for every
\* snapshot and every pattern of query failures.
C8_NeverEmpty == Returned => ev_out # <<>>

-----------------------------------------------------------------------------
(* Control registries and dispatch tables *)

\* CISBenchmarkChecker._load_cis_controls: the keys of cis_controls, in
\* insertion order
cis_controls ==
    <<"1.1", "1.2", "1.3", "1.4", "1.5", "1.6", "1.7", "1.8", "1.9", "1.10",
      "1.11", "1.12", "1.13", "1.14",
      "3.1", "3.2", "3.3", "3.4", "3.5", "3.6", "3.7", "3.8",
      "5.1", "5.2", "5.3", "5.4", "5.5">>

\* the controls of cis_controls created with automated=False
cis_manual_controls == {"1.1", "1.2"}

\* CISBenchmarkChecker.run_check: the keys of check_methods
check_methods == <<"1.3", "1.12", "3.1", "5.2">>

\* ExtendedCISChecker.run_check: the keys of extended_check_methods
extended_check_methods == <<"1.5", "1.6", "3.2", "3.3", "3.8", "5.5">>

\* KubernetesCISChecker.get_supported_controls: the control ids, in order
supported_controls ==
    <<"1.1.1", "1.2.1", "1.2.2", "1.2.5", "4.2.1", "4.2.2", "5.1.1", "5.1.3",
      "5.2.2", "5.2.3", "5.2.4", "5.2.5", "5.3.2", "5.7.3", "5.7.4">>

\* KubernetesCISChecker.run_compliance_check: the keys of control_methods
control_methods == <<"1.2.1", "5.1.1", "5.1.3", "5.2.x", "5.3.2">>

Range(seq) == {seq[i] : i \in 1..Len(seq)}

-----------------------------------------------------------------------------
(* The accounts and clusters a run looks at: "empty" has no resources,      *)
(* "typical" has some of each kind, "partial" has some of each kind and     *)
(* fails some per-resource queries, "denied" fails every query              *)

Environments == {"empty", "typical", "partial", "denied"}

TypicalUsers ==
    <<NamedUser("alice", [PasswordLastUsed |-> 46, list_keys_fails |-> FALSE,
                          keys |-> <<AccessKey("AKIA1", 90, FALSE)>>]),
      NamedUser("bob", [PasswordLastUsed |-> 45, list_keys_fails |-> FALSE,
                        keys |-> <<>>])>>

TypicalGroups ==
    <<[GroupId |-> "sg-1", IpPermissions |-> <<WebWorld, SshWorld>>],
      [GroupId |-> "sg-2", IpPermissions |-> <<RdpPrivate>>]>>

TypicalTrails ==
    <<NamedTrail("trail-1",
          [IsMultiRegionTrail |-> TRUE, status_fails |-> FALSE, IsLogging |-> TRUE,
           LogFileValidationEnabled |-> TRUE, has_bucket |-> TRUE,
           bucket |-> Bucket("private", "none", "all")]),
      NamedTrail("trail-2",
          [IsMultiRegionTrail |-> TRUE, status_fails |-> FALSE, IsLogging |-> FALSE,
           LogFileValidationEnabled |-> FALSE, has_bucket |-> TRUE,
           bucket |-> Bucket("public_read", "private", "all")])>>

TypicalKeys ==
    <<NamedKey("key-1", [describe_fails |-> FALSE, KeyManager |-> "CUSTOMER",
                         rotation_fails |-> FALSE, KeyRotationEnabled |-> TRUE]),
      NamedKey("key-2", [describe_fails |-> FALSE, KeyManager |-> "CUSTOMER",
                         rotation_fails |-> FALSE, KeyRotationEnabled |-> FALSE])>>

TypicalPods ==
    <<NamedPod("pod-1", [namespace |-> "prod", security_context |-> TRUE,
                         host_pid |-> TRUE, host_ipc |-> FALSE, host_network |-> TRUE,
                         containers |-> <<Container("app", TRUE)>>]),
      NamedPod("pod-2", [namespace |-> "default", security_context |-> FALSE,
                         host_pid |-> FALSE, host_ipc |-> FALSE, host_network |-> FALSE,
                         containers |-> <<Container("app", FALSE)>>])>>

PartialUsers ==
    <<NamedUser("alice", [PasswordLastUsed |-> 46, list_keys_fails |-> TRUE,
                          keys |-> <<>>]),
      NamedUser("bob", [PasswordLastUsed |-> NeverUsed, list_keys_fails |-> FALSE,
                        keys |-> <<AccessKey("AKIA1", 46, TRUE)>>])>>

PartialTrails ==
    <<NamedTrail("trail-1",
          [IsMultiRegionTrail |-> TRUE, status_fails |-> FALSE, IsLogging |-> TRUE,
           LogFileValidationEnabled |-> TRUE, has_bucket |-> TRUE,
           bucket |-> Bucket("fails", "none", "all")]),
      NamedTrail("trail-2",
          [IsMultiRegionTrail |-> TRUE, status_fails |-> FALSE, IsLogging |-> TRUE,
           LogFileValidationEnabled |-> FALSE, has_bucket |-> TRUE,
           bucket |-> Bucket("private", "none", "all")])>>

PartialKeys ==
    <<NamedKey("key-1", [describe_fails |-> FALSE, KeyManager |-> "CUSTOMER",
                         rotation_fails |-> TRUE, KeyRotationEnabled |-> TRUE]),
      NamedKey("key-2", [describe_fails |-> FALSE, KeyManager |-> "CUSTOMER",
                         rotation_fails |-> FALSE, KeyRotationEnabled |-> TRUE])>>

\* the snapshot the evaluator of control ctl sees in environment e
SnapshotOf(e, ctl) ==
    LET denied == e = "denied"
        partial == e = "partial"
        some == e \in {"typical", "partial"}
    IN  CASE ctl = "1.3" ->
               [users |-> IF partial THEN PartialUsers
                          ELSE IF some THEN TypicalUsers ELSE <<>>,
                fail_after |-> IF denied THEN 0 ELSE NoFailure]
          [] ctl = "1.12" ->
               [summary_fails |-> denied,
                AccountAccessKeysPresent |-> IF some THEN 1 ELSE 0]
          [] ctl \in {"3.1", "3.2", "3.3"} ->
               [describe_fails |-> denied,
                trails |-> IF partial THEN PartialTrails
                           ELSE IF some THEN TypicalTrails ELSE <<>>]
          [] ctl = "5.2" ->
               [sgs |-> IF some THEN TypicalGroups ELSE <<>>,
                fail_after |-> IF denied THEN 0 ELSE IF partial THEN 1 ELSE NoFailure]
          [] ctl \in {"1.5", "1.6"} ->
               [outcome |-> IF denied THEN "error"
                            ELSE IF some THEN "ok" ELSE "NoSuchEntity",
                MinimumPasswordLength |-> 14, PasswordReusePrevention |-> 23]
          [] ctl = "3.8" ->
               [keys |-> IF partial THEN PartialKeys
                         ELSE IF some THEN TypicalKeys ELSE <<>>,
                fail_after |-> IF denied THEN 0 ELSE NoFailure]
          [] ctl = "5.5" ->
               [vpcs_fail |-> denied, flow_logs_fail |-> denied \/ partial,
                vpcs |-> IF some THEN <<"vpc-1", "vpc-2">> ELSE <<>>,
                flow_logs |-> IF some THEN <<FlowLog("VPC", "vpc-1", "ACTIVE")>>
                              ELSE <<>>]
          [] ctl = "1.2.1" ->
               [list_fails |-> denied,
                pods |-> IF some
                         THEN <<ApiServerPod("kube-apiserver-a",
                                             <<ApiContainer(TRUE, FALSE)>>)>>
                         ELSE <<>>]
          [] ctl = "5.1.1" ->
               [list_fails |-> denied,
                bindings |-> IF some
                             THEN <<Binding("ops", "cluster-admin",
                                       <<Subject("ServiceAccount", "ci", "build"),
                                         Subject("ServiceAccount", "cd", "deploy")>>)>>
                             ELSE <<>>]
          [] ctl = "5.1.3" ->
               [cluster_roles_fail |-> denied, roles_fail |-> denied \/ partial,
                cluster_roles |-> IF some
                                  THEN <<RbacRole("ops", NoNamespace,
                                            <<RbacRule(TRUE, FALSE, FALSE)>>)>>
                                  ELSE <<>>,
                roles |-> IF some
                          THEN <<RbacRole("admin", "build", <<RbacRule(TRUE, TRUE, FALSE)>>)>>
                          ELSE <<>>]
          [] ctl = "5.2.x" ->
               [list_fails |-> denied, pods |-> IF some THEN TypicalPods ELSE <<>>]
          [] ctl = "5.3.2" ->
               [list_fails |-> denied,
                namespaces |-> IF some
                               THEN <<Namespace("kube-system", FALSE, FALSE, FALSE, TRUE),
                                      Namespace("prod", partial, FALSE, FALSE, TRUE),
                                      Namespace("dev", FALSE, FALSE, FALSE, TRUE)>>
                               ELSE <<>>]

\* check_methods[control_id]() and extended_check_methods[control_id]()
aws_check(ctl, snapshot) ==
    CASE ctl = "1.3" -> check_control_1_3(snapshot)
      [] ctl = "1.12" -> check_control_1_12(snapshot)
      [] ctl = "3.1" -> check_control_3_1(snapshot)
      [] ctl = "5.2" -> check_control_5_2(snapshot)
      [] ctl = "1.5" -> check_control_1_5(snapshot)
      [] ctl = "1.6" -> check_control_1_6(snapshot)
      [] ctl = "3.2" -> check_control_3_2(snapshot)
      [] ctl = "3.3" -> check_control_3_3(snapshot)
      [] ctl = "3.8" -> check_control_3_8(snapshot)
      [] ctl = "5.5" -> check_control_5_5(snapshot)

\* control_methods[control_id](), with the isinstance(result, list) test of
\* the caller: a single result is appended, a list extends
k8s_check(ctl, snapshot) ==
    CASE ctl = "1.2.1" -> <<check_api_server_anonymous_auth(snapshot)>>
      [] ctl = "5.1.1" -> check_rbac_cluster_admin_usage(snapshot)
      [] ctl = "5.1.3" -> check_wildcard_rbac_usage(snapshot)
      [] ctl = "5.2.x" -> check_pod_security_policies(snapshot)
      [] ctl = "5.3.2" -> check_network_policies(snapshot)

-----------------------------------------------------------------------------
(* lambda_handler: CONTROL_IDS is a string, modelled as the sequence of its *)
(* pieces: the separator ",", a blank " ", or the text of a control id      *)

RECURSIVE split(_, _, _)
\* str.split(','), scanning from position i with the current piece cur
split(str, i, cur) ==
    IF i > Len(str) THEN <<cur>>
    ELSE IF str[i] = "," THEN <<cur>> \o split(str, i + 1, <<>>)
    ELSE split(str, i + 1, Append(cur, str[i]))

RECURSIVE lstrip(_)
lstrip(piece) ==
    IF piece # <<>> /\ Head(piece) = " " THEN lstrip(Tail(piece)) ELSE piece

RECURSIVE rstrip(_)
rstrip(piece) ==
    IF piece # <<>> /\ piece[Len(piece)] = " "
    THEN rstrip(SubSeq(piece, 1, Len(piece) - 1))
    ELSE piece

RECURSIVE text(_)
\* the string a piece spells
text(piece) == IF piece = <<>> THEN "" ELSE Head(piece) \o text(Tail(piece))

\* cid.strip()
strip(piece) == text(rstrip(lstrip(piece)))

\* config['control_ids'] as lambda_handler passes it to run_check
parse_control_ids(var) ==
    IF ~var.set \/ var.value = <<>>
    THEN [given |-> FALSE, ids |-> <<>>]
    ELSE LET pieces == split(var.value, 1, <<>>)
             stripped == [k \in 1..Len(pieces) |-> strip(pieces[k])]
         IN  [given |-> TRUE, ids |-> SelectSeq(stripped, LAMBDA cid : cid # "")]

-----------------------------------------------------------------------------
(* The orchestrators, one step per iteration of their loops *)

EvaluatorError == "RuntimeError"

\* the result run_check appends when a check method raises
check_method_failed(cid) ==
    ComplianceResult(cid, INSUFFICIENT_DATA, "N/A", "Unknown",
        "Check method failed: " \o EvaluatorError, "Review implementation and retry")

\* check_method_not_implemented with INSUFFICIENT_DATA as the default status
check_method_not_implemented_as_insufficient(cid) ==
    ComplianceResult(cid, INSUFFICIENT_DATA, "N/A", "Unknown",
        "Check method not implemented", "Manual review required")

\* the result run_check appends for a control without a check method
check_method_not_implemented(cid) ==
    ComplianceResult(cid, NOT_APPLICABLE, "N/A", "Unknown",
        "Check method not implemented", "Manual review required")

\* the result ExtendedCISChecker.run_check appends when a check raises
extended_check_failed(cid) ==
    ComplianceResult(cid, INSUFFICIENT_DATA, "N/A", "Unknown",
        "Extended check failed: " \o EvaluatorError, "Review implementation and retry")

\* the result run_compliance_check appends when a check raises
check_failed(cid) ==
    K8sResult(cid, INSUFFICIENT_DATA, "unknown", "unknown",
        "Check failed: " \o EvaluatorError,
        "Review error and ensure proper cluster access", NoNamespace)

Invocation(cid, raised) == [control_id |-> cid, raised |-> raised]

Looping(at) == pc = at /\ idx <= Len(loop_ids)

Advance(results) ==
    /\ all_results' = all_results \o results
    /\ idx' = idx + 1
    /\ UNCHANGED <<platform, CONTROL_IDS, control_ids, env, pc, loop_ids>>
    /\ UNCHANGED not_run_vars

\* lambda_handler reads CONTROL_IDS and calls ExtendedCISChecker.run_check
LambdaParse ==
    /\ pc = "parse"
    /\ control_ids' = parse_control_ids(CONTROL_IDS)
    /\ pc' = "start"
    /\ UNCHANGED <<platform, CONTROL_IDS, env, loop_ids, idx, all_results, invoked>>
    /\ UNCHANGED not_run_vars

\* CISBenchmarkChecker.run_check: control_ids defaults to the registry keys
BaseStart ==
    /\ pc = "start" /\ platform \in {"aws", "ext", "lambda"}
    /\ loop_ids' = IF ~control_ids.given THEN cis_controls ELSE control_ids.ids
    /\ idx' = 1
    /\ pc' = "base"
    /\ UNCHANGED <<platform, CONTROL_IDS, control_ids, env, all_results, invoked>>
    /\ UNCHANGED not_run_vars

\* control_id not in self.cis_controls: warning and continue
BaseUnknownControl ==
    /\ Looping("base")
    /\ loop_ids[idx] \notin Range(cis_controls)
    /\ Advance(<<>>)
    /\ UNCHANGED invoked

\* the check method returns its results
BaseCheck ==
    /\ Looping("base")
    /\ loop_ids[idx] \in Range(check_methods)
    /\ Advance(aws_check(loop_ids[idx], SnapshotOf(env, loop_ids[idx])))
    /\ invoked' = Append(invoked, Invocation(loop_ids[idx], FALSE))

\* the check method raises
BaseCheckRaises ==
    /\ Looping("base")
    /\ loop_ids[idx] \in Range(check_methods)
    /\ Advance(<<check_method_failed(loop_ids[idx])>>)
    /\ invoked' = Append(invoked, Invocation(loop_ids[idx], TRUE))

\* a registry control without a check method
BaseNotImplemented ==
    /\ Looping("base")
    /\ loop_ids[idx] \in Range(cis_controls)
    /\ loop_ids[idx] \notin Range(check_methods)
    /\ Advance(<<check_method_not_implemented(loop_ids[idx])>>)
    /\ UNCHANGED invoked

\* run_check returns; ExtendedCISChecker.run_check goes on with
\* check_control_ids
BaseFinish ==
    /\ pc = "base" /\ idx > Len(loop_ids)
    /\ IF platform = "aws"
       THEN pc' = "done" /\ UNCHANGED <<loop_ids, idx>>
       ELSE /\ pc' = "extended"
            /\ loop_ids' = IF ~control_ids.given
                           THEN extended_check_methods
                           ELSE SelectSeq(control_ids.ids,
                                    LAMBDA cid : cid \in Range(extended_check_methods))
            /\ idx' = 1
    /\ UNCHANGED <<platform, CONTROL_IDS, control_ids, env, all_results, invoked>>
    /\ UNCHANGED not_run_vars

ExtCheck ==
    /\ Looping("extended")
    /\ loop_ids[idx] \in Range(extended_check_methods)
    /\ Advance(aws_check(loop_ids[idx], SnapshotOf(env, loop_ids[idx])))
    /\ invoked' = Append(invoked, Invocation(loop_ids[idx], FALSE))

ExtCheckRaises ==
    /\ Looping("extended")
    /\ loop_ids[idx] \in Range(extended_check_methods)
    /\ Advance(<<extended_check_failed(loop_ids[idx])>>)
    /\ invoked' = Append(invoked, Invocation(loop_ids[idx], TRUE))

ExtFinish ==
    /\ pc = "extended" /\ idx > Len(loop_ids)
    /\ pc' = "done"
    /\ UNCHANGED <<platform, CONTROL_IDS, control_ids, env, loop_ids, idx,
                   all_results, invoked>>
    /\ UNCHANGED not_run_vars

\* KubernetesCISChecker.run_compliance_check: `if not control_ids`
K8sStart ==
    /\ pc = "start" /\ platform = "k8s"
    /\ loop_ids' = IF ~control_ids.given \/ control_ids.ids = <<>>
                   THEN control_methods ELSE control_ids.ids
    /\ idx' = 1
    /\ pc' = "k8s"
    /\ UNCHANGED <<platform, CONTROL_IDS, control_ids, env, all_results, invoked>>
    /\ UNCHANGED not_run_vars

K8sCheck ==
    /\ Looping("k8s")
    /\ loop_ids[idx] \in Range(control_methods)
    /\ Advance(k8s_check(loop_ids[idx], SnapshotOf(env, loop_ids[idx])))
    /\ invoked' = Append(invoked, Invocation(loop_ids[idx], FALSE))

K8sCheckRaises ==
    /\ Looping("k8s")
    /\ loop_ids[idx] \in Range(control_methods)
    /\ Advance(<<check_failed(loop_ids[idx])>>)
    /\ invoked' = Append(invoked, Invocation(loop_ids[idx], TRUE))

\* control_id not in control_methods: warning only
K8sNotImplemented ==
    /\ Looping("k8s")
    /\ loop_ids[idx] \notin Range(control_methods)
    /\ Advance(<<>>)
    /\ UNCHANGED invoked

K8sFinish ==
    /\ pc = "k8s" /\ idx > Len(loop_ids)
    /\ pc' = "done"
    /\ UNCHANGED <<platform, CONTROL_IDS, control_ids, env, loop_ids, idx,
                   all_results, invoked>>
    /\ UNCHANGED not_run_vars

-----------------------------------------------------------------------------
(* Specification of one orchestrator run *)

MaxRequested == 3
MaxPieces == 4

AwsRequestable == {"1.3", "1.12", "5.2", "1.5", "1.4", "9.9"}
K8sRequestable == {"1.2.1", "5.1.3", "5.2.x", "5.3.2", "4.2.1", "9.9"}
Pieces == {",", " ", "1.3", "1.5"}

Requests(ids) ==
    {[given |-> FALSE, ids |-> <<>>]} \cup
    UNION { { [given |-> TRUE, ids |-> l] : l \in [1..n -> ids] } :
            n \in 0..MaxRequested }

EvalIdle == ev_ctl = "none" /\ ev_in = <<>> /\ ev_pc = "idle" /\ ev_out = <<>>

RunInit ==
    /\ EvalIdle
    /\ ReportIdle
    /\ MainIdle
    /\ HubIdle
    /\ TwiceIdle
    /\ RemIdle /\ FlowIdle /\ HandlerIdle
    /\ platform \in {"aws", "ext", "k8s", "lambda"}
    /\ env \in Environments
    /\ IF platform = "lambda"
       THEN /\ CONTROL_IDS \in {[set |-> FALSE, value |-> <<>>]} \cup
                  UNION { { [set |-> TRUE, value |-> v] : v \in [1..n -> Pieces] } :
                          n \in 0..MaxPieces }
            /\ control_ids = [given |-> FALSE, ids |-> <<>>]
            /\ pc = "parse"
       ELSE /\ CONTROL_IDS = [set |-> FALSE, value |-> <<>>]
            /\ control_ids \in Requests(IF platform = "k8s" THEN K8sRequestable
                                        ELSE AwsRequestable)
            /\ pc = "start"
    /\ loop_ids = <<>> /\ idx = 0 /\ all_results = <<>> /\ invoked = <<>>

RunNext ==
    \/ LambdaParse
    \/ BaseStart
    \/ BaseUnknownControl
    \/ BaseCheck
    \/ BaseCheckRaises
    \/ BaseNotImplemented
    \/ BaseFinish
    \/ ExtCheck
    \/ ExtCheckRaises
    \/ ExtFinish
    \/ K8sStart
    \/ K8sCheck
    \/ K8sCheckRaises
    \/ K8sNotImplemented
    \/ K8sFinish

SpecRun == RunInit /\ [][RunNext]_vars

-----------------------------------------------------------------------------
(* Claims about the orchestrators, checked under SpecRun *)

Done == pc = "done"

\* the control ids the caller named, in request order (empty when absent)
Requested == control_ids.ids

Occurrences(seq, x) == Len(SelectSeq(seq, LAMBDA y : y = x))

\* the controls the running orchestrator has an evaluator for, in the order
\* an unscoped run invokes them
Evaluators ==
    CASE platform = "aws" -> check_methods
      [] platform \in {"ext", "lambda"} -> check_methods \o extended_check_methods
      [] platform = "k8s" -> control_methods

\* the control registry of the running orchestrator
Registry ==
    IF platform = "k8s" THEN Range(supported_controls) ELSE Range(cis_controls)

\* the control ids the results of an evaluator carry: those of the pod
\* security evaluator "5.2.x" are 5.2.2 to 5.2.5 and 5.7.4
Evaluated ==
    Range(Evaluators) \cup
    (IF platform = "k8s" THEN {"5.2.2", "5.2.3", "5.2.4", "5.2.5", "5.7.4"} ELSE {})

ResultsOf(cid) == SelectSeq(all_results, LAMBDA r : r.control_id = cid)

InvokedIds == [k \in 1..Len(invoked) |-> invoked[k].control_id]

\* the result an orchestrator makes out of a raised exception
IsolationResult(r) ==
    /\ r.status = INSUFFICIENT_DATA
    /\ r.reason \in {check_method_failed(r.control_id).reason,
                     extended_check_failed(r.control_id).reason,
                     check_failed(r.control_id).reason}

Raised(cid) == \E k \in 1..Len(invoked) : invoked[k] = Invocation(cid, TRUE)

\* C1: in a finished run over a requested sequence of control ids, every
\* requested control that has an evaluator was invoked, each raised exception
\* left exactly one INSUFFICIENT_DATA result carrying that control's id, and a
\* request for three controls with evaluators of which only the second
\* raised has results for all three
C1_EvaluatorIsolation ==
    (Done /\ control_ids.given) =>
        /\ \A cid \in Range(Requested) :
              cid \in Range(Evaluators) =>
                 /\ cid \in Range(InvokedIds)
                 /\ Len(SelectSeq(ResultsOf(cid), IsolationResult))
                      = Occurrences(invoked, Invocation(cid, TRUE))
        /\ ( /\ Len(Requested) = 3
             /\ Cardinality(Range(Requested)) = 3
             /\ Range(Requested) \subseteq Range(Evaluators)
             /\ Raised(Requested[2])
             /\ ~Raised(Requested[1]) /\ ~Raised(Requested[3]) )
           => \A k \in 1..3 : ResultsOf(Requested[k]) # <<>>

\* the order the controls of a run are to be reported in: request order, or
\* registry order when no ids are given
ReportOrder == IF control_ids.given THEN Requested ELSE cis_controls

Position(order, cid) == CHOOSE k \in 1..Len(order) : order[k] = cid

\* C3: in a finished AWS run (base or extended) over a duplicate-free request,
\* every result belongs to a control of the report order and no result of a
\* later control precedes a result of an earlier one
C3_RequestOrder ==
    ( /\ Done /\ platform \in {"aws", "ext"}
      /\ Cardinality(Range(ReportOrder)) = Len(ReportOrder) )
    => /\ \A i \in 1..Len(all_results) :
             all_results[i].control_id \in Range(ReportOrder)
       /\ \A i, j \in 1..Len(all_results) :
             i < j => Position(ReportOrder, all_results[i].control_id)
                        <= Position(ReportOrder, all_results[j].control_id)

\* C4: a finished run with control_ids absent holds no result, NOT_APPLICABLE
\* or other, for a registry control that has no evaluator
C4_UnscopedSkipsUnimplemented ==
    (Done /\ ~control_ids.given) =>
        \A i \in 1..Len(all_results) :
            all_results[i].control_id \notin (Registry \ Evaluated)

\* C5: a finished run holds, for every requested registry control without an
\* evaluator, one NOT_APPLICABLE "not implemented" result per request of it
\* and no other result
C5_NotApplicableWhenUnimplemented ==
    (Done /\ control_ids.given) =>
        \A cid \in Range(Requested) :
            (cid \in Registry /\ cid \notin Evaluated) =>
                /\ Len(ResultsOf(cid)) = Occurrences(Requested, cid)
                /\ \A k \in 1..Len(ResultsOf(cid)) :
                      /\ ResultsOf(cid)[k].status = NOT_APPLICABLE
                      /\ ResultsOf(cid)[k].reason = "Check method not implemented"

\* C6: a finished run holds, for every requested control id outside the
\* registry, one NOT_APPLICABLE result per request of it, and has gone
\* through every other requested control
C6_UnknownControlSurfaced ==
    (Done /\ control_ids.given) =>
        \A cid \in Range(Requested) :
            cid \notin (Registry \cup Evaluated) =>
                /\ Len(ResultsOf(cid)) = Occurrences(Requested, cid)
                /\ \A k \in 1..Len(ResultsOf(cid)) :
                      ResultsOf(cid)[k].status = NOT_APPLICABLE
                /\ \A other \in Range(Requested) :
                      other \in Range(Evaluators) => other \in Range(InvokedIds)

\* C7: a finished run whose control_ids is absent or an empty list (for the
\* Lambda: CONTROL_IDS unset, or filtered down to nothing) has invoked every
\* evaluator of its orchestrator, once each
C7_EmptyMeansAll ==
    (Done /\ (control_ids.given => Requested = <<>>)) =>
        InvokedIds = Evaluators

-----------------------------------------------------------------------------
(* Claims about the threshold evaluators, checked under SpecEval *)

\* the evaluator's results for resource rid are one result of status st
ClassifiedAs(rid, st) ==
    /\ Len(ResultsFor(ev_out, rid)) = 1
    /\ ResultsFor(ev_out, rid)[1].status = st

AtBoundary(value, limit, rid, compliant_side) ==
    /\ value = limit => ClassifiedAs(rid, COMPLIANT)
    /\ compliant_side = "low" /\ value = limit + 1 => ClassifiedAs(rid, NON_COMPLIANT)
    /\ compliant_side = "high" /\ value = limit - 1 => ClassifiedAs(rid, NON_COMPLIANT)

\* the passwords of control 1.3 at the boundary
C11_Passwords ==
    \A u \in 1..Len(ev_in.users) :
        AtBoundary(ev_in.users[u].PasswordLastUsed, 45, ev_in.users[u].UserName, "low")

\* the access keys of control 1.3 whose last use was read, at the boundary
C11_AccessKeys ==
    \A u \in 1..Len(ev_in.users) :
        ~ev_in.users[u].list_keys_fails =>
            \A k \in 1..Len(ev_in.users[u].keys) :
                ~ev_in.users[u].keys[k].last_used_fails =>
                    AtBoundary(ev_in.users[u].keys[k].LastUsedDate, 45,
                               ev_in.users[u].keys[k].AccessKeyId, "low")

\* C11: a credential of control 1.3 (password or access key) unused for 45
\* days is classified COMPLIANT and for 46 days NON_COMPLIANT; a password
\* policy of minimum length 14 is COMPLIANT for 1.5 and 13 NON_COMPLIANT; a
\* reuse prevention of 24 is COMPLIANT for 1.6 and 23 NON_COMPLIANT
C11_InclusiveThresholds ==
    Returned =>
        /\ (ev_ctl = "1.3" /\ ~ListingFailed(ev_in)) =>
               C11_Passwords /\ C11_AccessKeys
        /\ (ev_ctl = "1.5" /\ ev_in.outcome = "ok") =>
               AtBoundary(ev_in.MinimumPasswordLength, 14, "account", "high")
        /\ (ev_ctl = "1.6" /\ ev_in.outcome = "ok") =>
               AtBoundary(ev_in.PasswordReusePrevention, 24, "account", "high")

\* C12: when get_account_password_policy reports NoSuchEntity, controls 1.5
\* and 1.6 return exactly one result, NON_COMPLIANT with the reason that no
\* password policy is configured; any other failure of the query yields one
\* INSUFFICIENT_DATA result instead
C12_MissingPolicyIsNonCompliant ==
    (Returned /\ ev_ctl \in {"1.5", "1.6"}) =>
        /\ ev_in.outcome = "NoSuchEntity" =>
              /\ Len(ev_out) = 1
              /\ ev_out[1].status = NON_COMPLIANT
              /\ ev_out[1].reason = "No password policy configured"
              /\ ev_out[1].control_id = ev_ctl
        /\ ev_in.outcome = "error" =>
              /\ Len(ev_out) = 1
              /\ ev_out[1].status = INSUFFICIENT_DATA
              /\ ev_out[1].control_id = ev_ctl

C12_Witness ==
    /\ Returned /\ ev_ctl = "1.5" /\ ev_in.outcome = "NoSuchEntity"
    /\ ev_out # <<>> /\ ev_out[1].status = NON_COMPLIANT

-----------------------------------------------------------------------------
(* Claims about the results of a run, checked under SpecRun *)

\* C13: an INSUFFICIENT_DATA result is in the results of a run only when the
\* evaluator invocation of its control raised or a query that evaluator
\* issued failed; a run in which none did holds no INSUFFICIENT_DATA result
C13_InsufficientOnlyOnFailure ==
    \A i \in 1..Len(all_results) :
        all_results[i].status = INSUFFICIENT_DATA =>
            /\ all_results[i].control_id \in Range(Evaluators)
            /\ \/ Raised(all_results[i].control_id)
               \/ QueryFailed(all_results[i].control_id,
                              SnapshotOf(env, all_results[i].control_id))

C13_Witness ==
    /\ Done
    /\ \E i \in 1..Len(all_results) :
          /\ all_results[i].status = INSUFFICIENT_DATA
          /\ ~Raised(all_results[i].control_id)
    /\ \E i \in 1..Len(all_results) :
          /\ all_results[i].status = INSUFFICIENT_DATA
          /\ Raised(all_results[i].control_id)

-----------------------------------------------------------------------------
(* Reports: CISBenchmarkChecker.generate_report, KubernetesCISChecker.      *)
(* generate_report, and generate_summary / calculate_compliance_percentage  *)
(* of the Lambda. A JSON report is modelled as the document json.dumps      *)
(* writes (a record of records), a text report as its lines grouped in      *)
(* header, summary and one block per result; a line f"{label}: {value}" is  *)
(* the pair of its label and value. A float is the fraction num / den.      *)

Now == "2026-01-01T00:00:00+00:00"
None == ""

\* len([r for r in results if r.status == status])
count_status(results, status) ==
    Len(SelectSeq(results, LAMBDA r : r.status = status))

\* status.value of a ComplianceStatus member
status_value(status) ==
    CASE status = COMPLIANT -> "COMPLIANT"
      [] status = NON_COMPLIANT -> "NON_COMPLIANT"
      [] status = NOT_APPLICABLE -> "NOT_APPLICABLE"
      [] status = INSUFFICIENT_DATA -> "INSUFFICIENT_DATA"

\* str(status), which json.dumps(..., default=str) writes for a member of a
\* plain Enum
status_str(status) == "ComplianceStatus." \o status_value(status)

Line(label, value) == [label |-> label, value |-> value]

Fraction(num, den) == [num |-> num, den |-> den]

\* a / b rounded to the nearest integer, halves to the even one: round() and
\* the .1f format on a non-negative quotient
round_div(a, b) ==
    LET q == a \div b
        r == a % b
    IN  IF 2 * r < b THEN q
        ELSE IF 2 * r > b THEN q + 1
        ELSE IF q % 2 = 0 THEN q ELSE q + 1

\* CISBenchmarkChecker.generate_report, output_format == 'json'
aws_json_report(self, results) ==
    [report_metadata |->
        [timestamp |-> Now, account_id |-> self.account_id,
         region |-> self.region, total_checks |-> Len(results)],
     summary |->
        [compliant |-> count_status(results, COMPLIANT),
         non_compliant |-> count_status(results, NON_COMPLIANT),
         not_applicable |-> count_status(results, NOT_APPLICABLE),
         insufficient_data |-> count_status(results, INSUFFICIENT_DATA)],
     results |->
        [k \in 1..Len(results) |->
            [control_id |-> results[k].control_id,
             status |-> status_value(results[k].status),
             resource_id |-> results[k].resource_id,
             resource_type |-> results[k].resource_type,
             reason |-> results[k].reason,
             remediation |-> results[k].remediation,
             timestamp |-> results[k].timestamp,
             region |-> results[k].region,
             account_id |-> results[k].account_id]]]

\* CISBenchmarkChecker.generate_report, any other output_format
aws_text_report(self, results) ==
    [header |->
        <<Line("Timestamp", Now), Line("Account ID", self.account_id),
          Line("Region", self.region), Line("Total Checks", Len(results))>>,
     summary |->
        <<Line("Compliant", count_status(results, COMPLIANT)),
          Line("Non-Compliant", count_status(results, NON_COMPLIANT)),
          Line("Not Applicable", count_status(results, NOT_APPLICABLE)),
          Line("Insufficient Data", count_status(results, INSUFFICIENT_DATA))>>,
     results |->
        [k \in 1..Len(results) |->
            <<Line("Control", results[k].control_id),
              Line("Status", status_value(results[k].status)),
              Line("Resource",
                   results[k].resource_type \o "::" \o results[k].resource_id),
              Line("Reason", results[k].reason),
              Line("Remediation", results[k].remediation)>>]]

aws_generate_report(self, results, format) ==
    IF format = "json" THEN aws_json_report(self, results)
    ELSE aws_text_report(self, results)

\* output_format.lower()
lower(format) == IF format = "JSON" THEN "json" ELSE format

\* compliance_percentage of KubernetesCISChecker.generate_report, in units
\* of 1/scale percent: scale 100 is round(..., 2), scale 10 is the .1f format
k8s_compliance_percentage(results, scale) ==
    IF Len(results) > 0
    THEN Fraction(round_div(count_status(results, COMPLIANT) * 100 * scale,
                            Len(results)), scale)
    ELSE Fraction(0, scale)

\* KubernetesCISChecker.generate_report, json: asdict(result) written with
\* default=str
k8s_json_report(results) ==
    [report_metadata |->
        [timestamp |-> Now, total_checks |-> Len(results),
         benchmark |-> "CIS Kubernetes Benchmark v1.8.0"],
     summary |->
        [compliant |-> count_status(results, COMPLIANT),
         non_compliant |-> count_status(results, NON_COMPLIANT),
         not_applicable |-> count_status(results, NOT_APPLICABLE),
         insufficient_data |-> count_status(results, INSUFFICIENT_DATA),
         compliance_percentage |-> k8s_compliance_percentage(results, 100)],
     results |->
        [k \in 1..Len(results) |->
            [control_id |-> results[k].control_id,
             status |-> status_str(results[k].status),
             resource_id |-> results[k].resource_id,
             resource_type |-> results[k].resource_type,
             reason |-> results[k].reason,
             remediation |-> results[k].remediation,
             timestamp |-> results[k].timestamp,
             namespace |-> results[k].namespace,
             node |-> results[k].node]]]

\* KubernetesCISChecker.generate_report, text
k8s_text_report(results) ==
    [header |->
        <<Line("Timestamp", Now), Line("Total Checks", Len(results)),
          Line("Compliance Percentage", k8s_compliance_percentage(results, 10))>>,
     summary |->
        <<Line("Compliant", count_status(results, COMPLIANT)),
          Line("Non-Compliant", count_status(results, NON_COMPLIANT)),
          Line("Not Applicable", count_status(results, NOT_APPLICABLE)),
          Line("Insufficient Data", count_status(results, INSUFFICIENT_DATA))>>,
     results |->
        [k \in 1..Len(results) |->
            <<Line("Control", results[k].control_id),
              Line("Status", status_value(results[k].status)),
              Line("Resource",
                   results[k].resource_type \o "::" \o results[k].resource_id)>>
            \o (IF results[k].namespace # None
                THEN <<Line("Namespace", results[k].namespace)>> ELSE <<>>)
            \o <<Line("Reason", results[k].reason),
                 Line("Remediation", results[k].remediation)>>]]

k8s_generate_report(results, format) ==
    IF lower(format) = "json" THEN k8s_json_report(results)
    ELSE k8s_text_report(results)

\* the loop of generate_summary without its NOT_APPLICABLE branch
summary_add_without_not_applicable(summary, result) ==
    IF result.status = COMPLIANT
    THEN [summary EXCEPT !.compliant = @ + 1]
    ELSE IF result.status = NON_COMPLIANT
    THEN [summary EXCEPT !.non_compliant = @ + 1]
    ELSE IF result.status = INSUFFICIENT_DATA
    THEN [summary EXCEPT !.insufficient_data = @ + 1]
    ELSE summary

\* one pass of the loop of generate_summary
summary_add(summary, result) ==
    IF result.status = COMPLIANT
    THEN [summary EXCEPT !.compliant = @ + 1]
    ELSE IF result.status = NON_COMPLIANT
    THEN [summary EXCEPT !.non_compliant = @ + 1]
    ELSE IF result.status = NOT_APPLICABLE
    THEN [summary EXCEPT !.not_applicable = @ + 1]
    ELSE IF result.status = INSUFFICIENT_DATA
    THEN [summary EXCEPT !.insufficient_data = @ + 1]
    ELSE summary

RECURSIVE summary_loop(_, _, _)
summary_loop(results, k, summary) ==
    IF k > Len(results) THEN summary
    ELSE summary_loop(results, k + 1, summary_add(summary, results[k]))

\* generate_summary of the Lambda
generate_summary(results) ==
    summary_loop(results, 1,
        [compliant |-> 0, non_compliant |-> 0, not_applicable |-> 0,
         insufficient_data |-> 0])

\* calculate_compliance_percentage of the Lambda
calculate_compliance_percentage(summary) ==
    LET total_applicable == summary.compliant + summary.non_compliant
    IN  IF total_applicable = 0 THEN Fraction(100, 1)
        ELSE Fraction(summary.compliant * 100, total_applicable)

\* the body of the response of lambda_handler
lambda_body(results) ==
    [summary |-> generate_summary(results),
     total_checks |-> Len(results),
     compliance_percentage |->
         calculate_compliance_percentage(generate_summary(results))]

\* json.loads of a JSON report, and the (control_id, status, resource_id)
\* of each of its results
read_back(document) ==
    [k \in 1..Len(document.results) |->
        <<document.results[k].control_id, document.results[k].status,
          document.results[k].resource_id>>]

-----------------------------------------------------------------------------
(* One call of a reporting function on a bounded result sequence *)

MaxResults == 4

\* the checker object: self.account_id, self.region
Checker == [account_id |-> "123456789012", region |-> "us-east-1"]

\* the fields every evaluator of the AWS checkers adds to a result:
\* timestamp=datetime.now(timezone.utc).isoformat(), region=self.region,
\* account_id=self.account_id
aws_result(self, r) ==
    [control_id |-> r.control_id, status |-> r.status,
     resource_id |-> r.resource_id, resource_type |-> r.resource_type,
     reason |-> r.reason, remediation |-> r.remediation,
     timestamp |-> Now, region |-> self.region,
     account_id |-> self.account_id]

\* the fields of a result of the Kubernetes checker: no evaluator sets node
k8s_result(r) ==
    [control_id |-> r.control_id, status |-> r.status,
     resource_id |-> r.resource_id, resource_type |-> r.resource_type,
     reason |-> r.reason, remediation |-> r.remediation,
     timestamp |-> Now, namespace |-> r.namespace, node |-> None]

\* results the AWS checkers produce, one of each status
AwsResultShapes ==
    { aws_result(Checker, r) : r \in
        { ComplianceResult("1.12", COMPLIANT, "N/A", "AWS::IAM::RootAccessKey",
                           "Root user has no active access keys", "N/A"),
          ComplianceResult("5.2", NON_COMPLIANT, "sg-1",
                           "AWS::EC2::SecurityGroup",
                           "Security group allows 0.0.0.0/0 access to port 22",
                           "Remove or restrict the rule"),
          check_method_not_implemented("1.1"),
          check_method_failed("1.3") } }

\* results the Kubernetes checker produces: cluster-wide and namespaced
K8sResultShapes ==
    { k8s_result(r) : r \in
        { K8sResult("5.1.1", COMPLIANT, "cluster-admin-bindings",
                    "ClusterRoleBinding",
                    "No excessive cluster-admin bindings found", "N/A",
                    NoNamespace),
          K8sResult("5.2.1", NON_COMPLIANT, "web", "Pod",
                    "Pod has privileged containers",
                    "Remove privileged: true", "prod"),
          K8sResult("1.1.1", NOT_APPLICABLE, "N/A", "N/A",
                    "Check method not implemented", "N/A", NoNamespace),
          K8sResult("5.3.2", INSUFFICIENT_DATA, "prod", "Namespace",
                    "Unable to check network policies: " \o QueryError,
                    "N/A", "prod") } }

ResultSequences(shapes) ==
    UNION { [1..n -> shapes] : n \in 0..MaxResults }

OutputFormats == {"json", "JSON", "text"}

ReportInit ==
    /\ EvalIdle
    /\ RunIdle
    /\ MainIdle
    /\ HubIdle
    /\ TwiceIdle
    /\ RemIdle /\ FlowIdle /\ HandlerIdle
    /\ component \in {"aws", "k8s", "lambda"}
    /\ report_results \in ResultSequences(IF component = "k8s"
                                          THEN K8sResultShapes
                                          ELSE AwsResultShapes)
    /\ output_format \in (IF component = "lambda" THEN {"json"}
                          ELSE OutputFormats)
    /\ report_pc = "ready" /\ report = <<>>

\* CISBenchmarkChecker.generate_report(results, output_format)
AwsGenerateReport ==
    /\ report_pc = "ready" /\ component = "aws"
    /\ report' = aws_generate_report(Checker, report_results, output_format)
    /\ report_pc' = "reported"
    /\ UNCHANGED <<component, report_results, output_format>>
    /\ UNCHANGED not_rep_vars

\* KubernetesCISChecker.generate_report(results, output_format)
K8sGenerateReport ==
    /\ report_pc = "ready" /\ component = "k8s"
    /\ report' = k8s_generate_report(report_results, output_format)
    /\ report_pc' = "reported"
    /\ UNCHANGED <<component, report_results, output_format>>
    /\ UNCHANGED not_rep_vars

\* lambda_handler after run_check: generate_summary and the response body
LambdaSummary ==
    /\ report_pc = "ready" /\ component = "lambda"
    /\ report' = lambda_body(report_results)
    /\ report_pc' = "reported"
    /\ UNCHANGED <<component, report_results, output_format>>
    /\ UNCHANGED not_rep_vars

ReportNext == AwsGenerateReport \/ K8sGenerateReport \/ LambdaSummary

SpecReport == ReportInit /\ [][ReportNext]_vars

-----------------------------------------------------------------------------
(* Claims about reports *)

Reported == report_pc = "reported"

IsJson ==
    \/ component = "aws" /\ output_format = "json"
    \/ component = "k8s" /\ lower(output_format) = "json"

SameFraction(a, b) == a.num * b.den = b.num * a.den

\* a fraction rounded to 1/scale
Rounded(f, scale) == Fraction(round_div(f.num * scale, f.den), scale)

\* 100 * compliant / (compliant + non_compliant), 100 when that sum is zero
ApplicablePercentage(results) ==
    LET compliant == Count(results, LAMBDA r : r.status = COMPLIANT)
        non_compliant == Count(results, LAMBDA r : r.status = NON_COMPLIANT)
    IN  IF compliant + non_compliant = 0 THEN Fraction(100, 1)
        ELSE Fraction(100 * compliant, compliant + non_compliant)

\* the percentage a report carries, and the precision it is written with
ReportedPercentage ==
    IF component = "lambda" THEN report.compliance_percentage
    ELSE IF IsJson THEN report.summary.compliance_percentage
    ELSE report.header[3].value

ReportsPercentage == Reported /\ component \in {"lambda", "k8s"}

\* C14: every reported compliance percentage is 100 * compliant /
\* (compliant + non_compliant) of the results, at the precision the report is
\* written with, and 100 when no result is compliant or non-compliant
C14_PercentageOfApplicable ==
    ReportsPercentage =>
        IF component = "lambda"
        THEN SameFraction(ReportedPercentage,
                          ApplicablePercentage(report_results))
        ELSE ReportedPercentage =
                 Rounded(ApplicablePercentage(report_results),
                         ReportedPercentage.den)

\* the value of the line with the given label
RECURSIVE ValueOf(_, _)
ValueOf(lines, label) ==
    IF Head(lines).label = label THEN Head(lines).value
    ELSE ValueOf(Tail(lines), label)

\* the four counts and the total a report carries
ReportedCounts ==
    IF component = "lambda" \/ IsJson
    THEN [compliant |-> report.summary.compliant,
          non_compliant |-> report.summary.non_compliant,
          not_applicable |-> report.summary.not_applicable,
          insufficient_data |-> report.summary.insufficient_data]
    ELSE [compliant |-> ValueOf(report.summary, "Compliant"),
          non_compliant |-> ValueOf(report.summary, "Non-Compliant"),
          not_applicable |-> ValueOf(report.summary, "Not Applicable"),
          insufficient_data |-> ValueOf(report.summary, "Insufficient Data")]

ReportedTotal ==
    IF component = "lambda" THEN report.total_checks
    ELSE IF IsJson THEN report.report_metadata.total_checks
    ELSE ValueOf(report.header, "Total Checks")

WithStatus(status) == Count(report_results, LAMBDA r : r.status = status)

\* C15: in every report and summary each of the four counts is the number of
\* results with that status, and the four counts add up to total_checks
C15_CountsPartitionResults ==
    Reported =>
        /\ ReportedCounts.compliant = WithStatus(COMPLIANT)
        /\ ReportedCounts.non_compliant = WithStatus(NON_COMPLIANT)
        /\ ReportedCounts.not_applicable = WithStatus(NOT_APPLICABLE)
        /\ ReportedCounts.insufficient_data = WithStatus(INSUFFICIENT_DATA)
        /\ ReportedCounts.compliant + ReportedCounts.non_compliant
               + ReportedCounts.not_applicable
               + ReportedCounts.insufficient_data = ReportedTotal
        /\ ReportedTotal = Len(report_results)

\* a summary of results of all four statuses
C15_Witness ==
    /\ Reported /\ component = "lambda"
    /\ \A status \in {COMPLIANT, NON_COMPLIANT, NOT_APPLICABLE,
                      INSUFFICIENT_DATA} : WithStatus(status) > 0
    /\ ReportedTotal = MaxResults

\* the two renderings of the reported results; one of them is the report
JsonRendering ==
    IF IsJson THEN report
    ELSE IF component = "aws" THEN aws_json_report(Checker, report_results)
    ELSE k8s_json_report(report_results)

TextRendering ==
    IF ~IsJson THEN report
    ELSE IF component = "aws" THEN aws_text_report(Checker, report_results)
    ELSE k8s_text_report(report_results)

\* the status a written status names, in either spelling
StatusNamed(written) ==
    CHOOSE status \in {COMPLIANT, NON_COMPLIANT, NOT_APPLICABLE,
                       INSUFFICIENT_DATA} :
        written \in {status_value(status), status_str(status)}

\* scope 0 is the report as a whole, scope k its k-th result
Fact(scope, field, value) == <<scope, field, value>>

\* the JSON key a text label stands for
FieldOf(label) ==
    CASE label = "Timestamp" -> "timestamp"
      [] label = "Account ID" -> "account_id"
      [] label = "Region" -> "region"
      [] label = "Total Checks" -> "total_checks"
      [] label = "Compliance Percentage" -> "compliance_percentage"
      [] label = "Compliant" -> "compliant"
      [] label = "Non-Compliant" -> "non_compliant"
      [] label = "Not Applicable" -> "not_applicable"
      [] label = "Insufficient Data" -> "insufficient_data"
      [] label = "Control" -> "control_id"
      [] label = "Status" -> "status"
      [] label = "Resource" -> "resource"
      [] label = "Namespace" -> "namespace"
      [] label = "Reason" -> "reason"
      [] label = "Remediation" -> "remediation"

CountFields ==
    {"total_checks", "compliant", "non_compliant", "not_applicable",
     "insufficient_data"}

\* a value as information: a status by the member it names, a percentage to
\* one decimal, a count as a whole fraction, anything else by its text
Informative(field, value) ==
    IF field = "status" THEN [text |-> StatusNamed(value), num |-> 0, den |-> 0]
    ELSE IF field = "compliance_percentage"
    THEN [text |-> "", num |-> Rounded(value, 10).num, den |-> 10]
    ELSE IF field \in CountFields THEN [text |-> "", num |-> value, den |-> 1]
    ELSE [text |-> value, num |-> 0, den |-> 0]

RecordFacts(scope, rec, fields) ==
    { Fact(scope, f, Informative(f, rec[f])) :
        f \in { g \in fields \cap DOMAIN rec :
                  g \in {"namespace", "node"} => rec[g] # None } }

\* what a JSON report says
JsonFacts(doc) ==
    RecordFacts(0, doc.report_metadata, DOMAIN doc.report_metadata)
    \cup RecordFacts(0, doc.summary, DOMAIN doc.summary)
    \cup UNION { RecordFacts(k, doc.results[k],
                             DOMAIN doc.results[k]
                                 \ {"resource_type", "resource_id"})
                 \cup { Fact(k, "resource",
                             Informative("resource",
                                 doc.results[k].resource_type \o "::"
                                     \o doc.results[k].resource_id)) } :
                 k \in 1..Len(doc.results) }

LineFacts(scope, lines) ==
    { Fact(scope, FieldOf(lines[i].label),
           Informative(FieldOf(lines[i].label), lines[i].value)) :
        i \in 1..Len(lines) }

\* what a text report says
TextFacts(doc) ==
    LineFacts(0, doc.header) \cup LineFacts(0, doc.summary)
    \cup UNION { LineFacts(k, doc.results[k]) : k \in 1..Len(doc.results) }

ReportsBothFormats == Reported /\ component \in {"aws", "k8s"}

\* C16: the text report and the JSON report of the same results say the same:
\* every metadata value, summary value and result field of one is in the other
C16_FormatsCarrySameInformation ==
    ReportsBothFormats => TextFacts(TextRendering) = JsonFacts(JsonRendering)

\* the tuples of the reported results, the status by its name
Tuples(results) ==
    [k \in 1..Len(results) |->
        <<results[k].control_id, status_value(results[k].status),
          results[k].resource_id>>]

\* C17: a JSON report read back gives the (control_id, status, resource_id)
\* of every result, the status by its name
C17_JsonRoundTrip ==
    (Reported /\ component \in {"aws", "k8s"} /\ IsJson) =>
        read_back(report) = Tuples(report_results)

-----------------------------------------------------------------------------
(* One command-line run: main() of cis_checker.py, extended_cis.py and      *)
(* k8s_cis_checker.py with the check command. main constructs the checker,  *)
(* calls run_check / run_compliance_check (the steps of SpecRun) and then   *)
(* generate_report. *)

\* --controls: absent (or empty) is None, otherwise the stripped pieces
MainRequests(ids) ==
    {[given |-> FALSE, ids |-> <<>>]} \cup
    { [given |-> TRUE, ids |-> <<cid>>] : cid \in ids }

\* what the constructor meets: boto3.Session or a client raises, or
\* sts.get_caller_identity raises; loading the cluster configuration raises
Setups(p) ==
    IF p = "k8s" THEN {"ok", "cluster"} ELSE {"ok", "session", "identity"}

Exited(code) == [exited |-> TRUE, code |-> code]

MainInit ==
    /\ EvalIdle
    /\ HubIdle
    /\ TwiceIdle
    /\ RemIdle /\ FlowIdle /\ HandlerIdle
    /\ platform \in {"aws", "ext", "k8s"}
    /\ env \in Environments
    /\ setup \in Setups(platform)
    /\ CONTROL_IDS = [set |-> FALSE, value |-> <<>>]
    /\ control_ids \in MainRequests(IF platform = "k8s" THEN K8sRequestable
                                    ELSE AwsRequestable)
    /\ pc = "setup"
    /\ loop_ids = <<>> /\ idx = 0 /\ all_results = <<>> /\ invoked = <<>>
    /\ component = (IF platform = "k8s" THEN "k8s" ELSE "aws")
    /\ output_format \in {"json", "text"}
    /\ report_results = <<>> /\ report_pc = "ready" /\ report = <<>>
    /\ exit_status = Running

\* the constructor returns
Construct ==
    /\ pc = "setup" /\ setup = "ok"
    /\ pc' = "start"
    /\ UNCHANGED <<platform, CONTROL_IDS, control_ids, env, loop_ids, idx,
                   all_results, invoked>>
    /\ UNCHANGED not_run_vars

\* CISBenchmarkChecker.__init__ raises; main does not catch, the interpreter
\* prints the traceback and exits with status 1
AwsConstructRaises ==
    /\ pc = "setup" /\ platform \in {"aws", "ext"}
    /\ setup \in {"session", "identity"}
    /\ pc' = "exited"
    /\ exit_status' = Exited(1)
    /\ UNCHANGED <<platform, CONTROL_IDS, control_ids, env, loop_ids, idx,
                   all_results, invoked, setup>>
    /\ UNCHANGED <<ev_vars, rep_vars, hub_vars, twice_vars, rem_vars, flow_vars, handler_vars>>

\* KubernetesCISChecker.__init__ that logs the failure and goes on
K8sConstructLogsOnly ==
    /\ pc = "setup" /\ platform = "k8s" /\ setup = "cluster"
    /\ pc' = "start"
    /\ UNCHANGED <<platform, CONTROL_IDS, control_ids, env, loop_ids, idx,
                   all_results, invoked>>
    /\ UNCHANGED not_run_vars

\* KubernetesCISChecker.__init__ logs and re-raises; main catches, logs and
\* calls sys.exit(1)
K8sConstructRaises ==
    /\ pc = "setup" /\ platform = "k8s" /\ setup = "cluster"
    /\ pc' = "exited"
    /\ exit_status' = Exited(1)
    /\ UNCHANGED <<platform, CONTROL_IDS, control_ids, env, loop_ids, idx,
                   all_results, invoked, setup>>
    /\ UNCHANGED <<ev_vars, rep_vars, hub_vars, twice_vars, rem_vars, flow_vars, handler_vars>>

\* main after the run: generate_report(results, args.format), write or print
\* it, return
MainReport ==
    /\ pc = "done" /\ report_pc = "ready"
    /\ report_results' =
           [k \in 1..Len(all_results) |->
               IF platform = "k8s" THEN k8s_result(all_results[k])
               ELSE aws_result(Checker, all_results[k])]
    /\ report' = IF platform = "k8s"
                 THEN k8s_generate_report(report_results', output_format)
                 ELSE aws_generate_report(Checker, report_results',
                                          output_format)
    /\ report_pc' = "reported"
    /\ pc' = "exited"
    /\ exit_status' = Exited(0)
    /\ UNCHANGED <<platform, CONTROL_IDS, control_ids, env, loop_ids, idx,
                   all_results, invoked, setup, component, output_format>>
    /\ UNCHANGED <<ev_vars, hub_vars, twice_vars, rem_vars, flow_vars, handler_vars>>

MainNext ==
    \/ Construct
    \/ AwsConstructRaises
    \/ K8sConstructRaises
    \/ BaseStart
    \/ BaseUnknownControl
    \/ BaseCheck
    \/ BaseCheckRaises
    \/ BaseNotImplemented
    \/ BaseFinish
    \/ ExtCheck
    \/ ExtCheckRaises
    \/ ExtFinish
    \/ K8sStart
    \/ K8sCheck
    \/ K8sCheckRaises
    \/ K8sNotImplemented
    \/ K8sFinish
    \/ MainReport

SpecMain == MainInit /\ [][MainNext]_vars

SetupFailed == setup # "ok"

\* C18: when the constructor of the checker fails, no evaluator is invoked,
\* no result is collected, no report is generated, the run never enters
\* run_check, and when it has ended its exit status is not zero
C18_SetupFailureIsFatal ==
    SetupFailed =>
        /\ invoked = <<>> /\ all_results = <<>>
        /\ report_pc # "reported" /\ report = <<>>
        /\ pc \in {"setup", "exited"}
        /\ exit_status.exited => exit_status.code # 0

\* a run whose setup failed has ended
C18_Witness == SetupFailed /\ exit_status.exited /\ pc = "exited"

-----------------------------------------------------------------------------
(* Two evaluations of one control on an unchanged snapshot. The snapshot    *)
(* holds when each credential was last used; the evaluator reads the clock. *)

MaxElapsed == 1

\* (datetime.now(timezone.utc) - last_used).days, for a credential last used
\* `age` days before the snapshot was taken
days_since_used(age, elapsed) ==
    IF age = NeverUsed THEN NeverUsed ELSE age + elapsed

\* the users of a snapshot as check_control_1_3 sees them at a given time
seen_at(snapshot, elapsed) ==
    [snapshot EXCEPT !.users =
        [u \in 1..Len(snapshot.users) |->
            [snapshot.users[u] EXCEPT
                !.PasswordLastUsed = days_since_used(@, elapsed),
                !.keys = [k \in 1..Len(snapshot.users[u].keys) |->
                             [snapshot.users[u].keys[k] EXCEPT
                                 !.LastUsedDate =
                                     days_since_used(@, elapsed)]]]]]

evaluate(ctl, snapshot, elapsed) ==
    IF ctl = "1.3" THEN check_control_1_3(seen_at(snapshot, elapsed))
    ELSE check_control_3_1(snapshot)

TwiceInit ==
    /\ ev_ctl \in {"1.3", "3.1"}
    /\ ev_in \in EvalInputs(ev_ctl)
    /\ ev_pc = "ready" /\ ev_out = <<>>
    /\ now = 0 /\ ev_first = <<>>
    /\ RunIdle /\ ReportIdle /\ MainIdle /\ HubIdle /\ RemIdle /\ FlowIdle /\ HandlerIdle

EvaluateOnce ==
    /\ ev_pc = "ready"
    /\ ev_first' = evaluate(ev_ctl, ev_in, now)
    /\ ev_pc' = "once"
    /\ UNCHANGED <<ev_ctl, ev_in, ev_out, now>>
    /\ UNCHANGED <<run_vars, rep_vars, main_vars, hub_vars, rem_vars, flow_vars, handler_vars>>

\* time passes between the two evaluations; the snapshot does not change
ClockAdvances ==
    /\ ev_pc = "once" /\ now < MaxElapsed
    /\ now' = now + 1
    /\ UNCHANGED <<ev_vars, ev_first>>
    /\ UNCHANGED <<run_vars, rep_vars, main_vars, hub_vars, rem_vars, flow_vars, handler_vars>>

EvaluateAgain ==
    /\ ev_pc = "once"
    /\ ev_out' = evaluate(ev_ctl, ev_in, now)
    /\ ev_pc' = "twice"
    /\ UNCHANGED <<ev_ctl, ev_in, ev_first, now>>
    /\ UNCHANGED <<run_vars, rep_vars, main_vars, hub_vars, rem_vars, flow_vars, handler_vars>>

TwiceNext == EvaluateOnce \/ ClockAdvances \/ EvaluateAgain

SpecTwice == TwiceInit /\ [][TwiceNext]_vars

EvaluatedTwice == ev_pc = "twice"

\* C19: two evaluations of a control on an unchanged snapshot return lists of
\* the same length that agree position by position on control_id,
\* resource_id, status and reason
C19_Idempotent ==
    EvaluatedTwice =>
        /\ Len(ev_first) = Len(ev_out)
        /\ \A k \in 1..Len(ev_first) :
              k <= Len(ev_out) =>
                 /\ ev_first[k].control_id = ev_out[k].control_id
                 /\ ev_first[k].resource_id = ev_out[k].resource_id
                 /\ ev_first[k].status = ev_out[k].status
                 /\ ev_first[k].reason = ev_out[k].reason

-----------------------------------------------------------------------------
(* send_to_security_hub of the Lambda *)

batch_size == 100

MaxFindings == 201
MaxOthers == 2

get_severity_for_control(control_id) ==
    IF control_id \in {"1.12", "1.13"} THEN "CRITICAL"
    ELSE IF control_id \in {"3.1", "5.2", "1.5"} THEN "HIGH"
    ELSE IF control_id \in {"1.3", "1.4", "1.6", "3.2", "3.8", "5.5"}
    THEN "MEDIUM"
    ELSE "LOW"

\* the finding built for a NON_COMPLIANT result
finding_of(result, region) ==
    [SchemaVersion |-> "2018-10-08",
     Id |-> "cis-" \o result.control_id \o "-" \o result.resource_id,
     ProductArn |-> "arn:aws:securityhub:" \o region
                        \o "::product/custom/cis-benchmark-checker",
     GeneratorId |-> "cis-control-" \o result.control_id,
     AwsAccountId |-> result.account_id,
     CreatedAt |-> result.timestamp,
     UpdatedAt |-> result.timestamp,
     Severity |-> [Label |-> get_severity_for_control(result.control_id)],
     Title |-> "CIS Control " \o result.control_id \o " - Non-Compliant",
     Description |-> result.reason,
     Resources |-> <<[Type |-> result.resource_type,
                      Id |-> result.resource_id,
                      Region |-> result.region]>>,
     Compliance |-> [Status |-> "FAILED"],
     Remediation |-> [Recommendation |-> [Text |-> result.remediation]],
     RecordState |-> "ACTIVE",
     WorkflowState |-> "NEW"]

\* the first loop of send_to_security_hub: a finding is appended for each
\* result whose status is NON_COMPLIANT, in the order of the results
build_findings(results, region) ==
    LET flagged == SelectSeq(results, LAMBDA r : r.status = NON_COMPLIANT)
    IN  [k \in 1..Len(flagged) |-> finding_of(flagged[k], region)]

\* findings[i:i + batch_size], i counted from 0
batch_at(list, i) ==
    SubSeq(list, i + 1,
           IF i + batch_size < Len(list) THEN i + batch_size ELSE Len(list))

Submission(batch, failed) == [Findings |-> batch, failed |-> failed]

\* the k-th open security group of a large account
OpenGroup(k) ==
    aws_result(Checker,
        ComplianceResult("5.2", NON_COMPLIANT, "sg-" \o ToString(k),
            "AWS::EC2::SecurityGroup",
            "Security group allows 0.0.0.0/0 access to port 22",
            "Remove or restrict the rule"))

\* result lists: n NON_COMPLIANT results, results of other statuses before,
\* after and (when inside) in the middle of them
OtherResults ==
    UNION { [1..m -> AwsResultShapes] : m \in 0..MaxOthers }

IsOther(results) ==
    \A k \in 1..Len(results) : results[k].status # NON_COMPLIANT

NonCompliantCounts ==
    {0, 1, batch_size - 1, batch_size, batch_size + 1, 2 * batch_size,
     MaxFindings}

HubInput(n, before, inside) ==
    before \o [k \in 1..(n \div 2) |-> OpenGroup(k)] \o inside
           \o [k \in 1..(n - n \div 2) |-> OpenGroup(n \div 2 + k)]

HubInputs ==
    { HubInput(n, before, inside) :
        n \in NonCompliantCounts,
        before \in {o \in OtherResults : IsOther(o)},
        inside \in {o \in OtherResults : IsOther(o) /\ Len(o) <= 1} }

HubInit ==
    /\ EvalIdle /\ RunIdle /\ ReportIdle /\ MainIdle /\ TwiceIdle /\ RemIdle /\ FlowIdle /\ HandlerIdle
    /\ hub_results \in HubInputs
    /\ findings = <<>> /\ hub_pc = "start" /\ hub_i = 0 /\ submissions = <<>>

\* boto3.client('securityhub') raises: the exception leaves the function
HubClientRaises ==
    /\ hub_pc = "start"
    /\ hub_pc' = "raised"
    /\ UNCHANGED <<hub_results, findings, hub_i, submissions>>
    /\ UNCHANGED not_hub_vars

HubBuild ==
    /\ hub_pc = "start"
    /\ findings' = build_findings(hub_results, Checker.region)
    /\ hub_i' = 0
    /\ hub_pc' = "submit"
    /\ UNCHANGED <<hub_results, submissions>>
    /\ UNCHANGED not_hub_vars

HubSubmit ==
    /\ hub_pc = "submit" /\ hub_i < Len(findings)
    /\ submissions' = Append(submissions,
                             Submission(batch_at(findings, hub_i), FALSE))
    /\ hub_i' = hub_i + batch_size
    /\ UNCHANGED <<hub_results, findings, hub_pc>>
    /\ UNCHANGED not_hub_vars

\* batch_import_findings raises and the function returns at once
HubSubmitFailsAndReturns ==
    /\ hub_pc = "submit" /\ hub_i < Len(findings)
    /\ submissions' = Append(submissions,
                             Submission(batch_at(findings, hub_i), TRUE))
    /\ hub_pc' = "done"
    /\ UNCHANGED <<hub_results, findings, hub_i>>
    /\ UNCHANGED not_hub_vars

\* batch_import_findings raises: the error is logged, the loop goes on
HubSubmitFails ==
    /\ hub_pc = "submit" /\ hub_i < Len(findings)
    /\ submissions' = Append(submissions,
                             Submission(batch_at(findings, hub_i), TRUE))
    /\ hub_i' = hub_i + batch_size
    /\ UNCHANGED <<hub_results, findings, hub_pc>>
    /\ UNCHANGED not_hub_vars

HubReturn ==
    /\ hub_pc = "submit" /\ hub_i >= Len(findings)
    /\ hub_pc' = "done"
    /\ UNCHANGED <<hub_results, findings, hub_i, submissions>>
    /\ UNCHANGED not_hub_vars

HubNext ==
    \/ HubClientRaises
    \/ HubBuild
    \/ HubSubmit
    \/ HubSubmitFails
    \/ HubReturn

SpecHub == HubInit /\ [][HubNext]_vars

\* the positions of the NON_COMPLIANT results
Flagged == {p \in 1..Len(hub_results) : hub_results[p].status = NON_COMPLIANT}

\* the findings handed to batch_import_findings, in call order
Submitted == Flatten([b \in 1..Len(submissions) |-> submissions[b].Findings])

\* C20: the findings are the NON_COMPLIANT results, one each, in order, and
\* no other; no batch has more than 100 of them; and when the function
\* returns, every finding has been handed over in exactly one batch, failed
\* batches or not
C20_ForwardsNonCompliantInBatches ==
    /\ \A b \in 1..Len(submissions) :
          Len(submissions[b].Findings) <= 100
    /\ hub_pc \in {"submit", "done"} =>
          /\ Len(findings) = Cardinality(Flagged)
          /\ \A p \in Flagged :
                LET k == Cardinality({q \in Flagged : q <= p})
                IN  /\ findings[k].Id = "cis-" \o hub_results[p].control_id
                                            \o "-" \o hub_results[p].resource_id
                    /\ findings[k].Description = hub_results[p].reason
    /\ hub_pc = "done" =>
          /\ Submitted = findings
          /\ \A k \in 1..Len(findings) :
                Cardinality({ b \in 1..Len(submissions) :
                    \E j \in 1..Len(submissions[b].Findings) :
                        submissions[b].Findings[j] = findings[k] }) = 1

\* a return after three batches, a failed one before a successful one
C20_Witness ==
    /\ hub_pc = "done" /\ Len(submissions) = 3
    /\ submissions[1].failed /\ ~submissions[2].failed
    /\ Len(submissions[1].Findings) = batch_size
    /\ Len(hub_results) > Len(findings)

-----------------------------------------------------------------------------
(* Further claims about the orchestrators, checked under SpecRun *)

ExtendedRun == platform \in {"ext", "lambda"}

NotImplementedResult(r) ==
    r.status = NOT_APPLICABLE /\ r.reason = "Check method not implemented"

\* C24: a finished run of ExtendedCISChecker.run_check holds no NOT_APPLICABLE
\* "Check method not implemented" result for a control that has a base or an
\* extended evaluator, whether the control was named or the run was unscoped
C24_NoNotImplementedForEvaluated ==
    (Done /\ ExtendedRun) =>
        \A i \in 1..Len(all_results) :
            all_results[i].control_id \in Range(Evaluators) =>
                ~NotImplementedResult(all_results[i])

\* the control ids a run is asked to evaluate: the ids named, or every id
\* the orchestrator goes through when none is named
AskedFor ==
    IF control_ids.given /\ ~(platform = "k8s" /\ control_ids.ids = <<>>)
    THEN Range(Requested)
    ELSE Registry \cup Range(Evaluators)

\* C25: every result of a finished run carries the id of a control the run
\* was asked to evaluate, and a result of an invoked evaluator carries an id
\* of the registry of the platform
C25_ResultsTaggedWithRequestedControl ==
    Done =>
        \A i \in 1..Len(all_results) :
            /\ all_results[i].control_id \in AskedFor
            /\ all_results[i].control_id \in Range(InvokedIds) =>
                  all_results[i].control_id \in Registry

-----------------------------------------------------------------------------
(* Further claims about the evaluators, checked under SpecEval *)

\* the evaluators whose COMPLIANT result is one verdict on the whole account
\* or cluster, not on one listed resource
WholeVerdict == {"1.12", "1.5", "1.6", "1.2.1", "5.1.1", "5.1.3", "5.3.2"}

ReportsCompliant == \E k \in 1..Len(ev_out) : ev_out[k].status = COMPLIANT

\* a namespace check_network_policies looks at that has pods and no policy
Unprotected(ns) ==
    /\ ns.name \notin SkippedNamespaces_5_3_2
    /\ ~ns.has_policies /\ ns.has_pods

\* C26: an evaluator that gives one verdict on the whole account or cluster
\* returns COMPLIANT only when none of its queries failed; check_network_policies
\* returns COMPLIANT only when, in addition, no namespace outside the system
\* ones has pods without a network policy
C26_CompliantOnlyWhenQueriesSucceeded ==
    (Returned /\ ev_ctl \in WholeVerdict /\ ReportsCompliant) =>
        /\ ~QueryFailed(ev_ctl, ev_in)
        /\ ev_ctl = "5.3.2" =>
              \A n \in 1..Len(ev_in.namespaces) :
                  ~Unprotected(ev_in.namespaces[n])

Flags(cid, pod) ==
    \E k \in 1..Len(ev_out) :
        /\ ev_out[k].control_id = cid /\ ev_out[k].status = NON_COMPLIANT
        /\ ev_out[k].resource_id = pod.name

\* C27: check_pod_security_policies, when the pod listing succeeds, returns a
\* NON_COMPLIANT result for 5.2.2, 5.2.3 or 5.2.4 for every pod outside the
\* system namespaces that sets hostPID, hostIPC or hostNetwork, with or
\* without a pod-level security context
C27_HostNamespacesFlagged ==
    (Returned /\ ev_ctl = "5.2.x" /\ ~ev_in.list_fails) =>
        \A p \in 1..Len(ev_in.pods) :
            ev_in.pods[p].namespace \notin SkippedNamespaces_5_2 =>
                /\ ev_in.pods[p].host_pid => Flags("5.2.2", ev_in.pods[p])
                /\ ev_in.pods[p].host_ipc => Flags("5.2.3", ev_in.pods[p])
                /\ ev_in.pods[p].host_network => Flags("5.2.4", ev_in.pods[p])

-----------------------------------------------------------------------------
(* SecurityGroupRemediator: find_open_security_groups,                      *)
(* remediate_security_group and generate_remediation_report. An ip_range is *)
(* its CidrIp; a port of None is NoPort.                                    *)

MaxRemGroups == 2

risky_ports == <<22, 3389, 1433, 3306, 5432, 6379, 27017, 9200, 5601>>

\* the ports argument: None, the string 'all', or a list of ports
NoPorts == [kind |-> "none", list |-> <<>>]
AllPorts == [kind |-> "all", list |-> <<>>]
PortList(list) == [kind |-> "list", list |-> list]

\* the condition without its all-protocol branch
matches_ports_by_range_only(rule, ports) ==
    \/ ports.kind = "all"
    \/ /\ rule.FromPort # NoPort
       /\ \E p \in 1..Len(ports.list) :
              ports.list[p] >= rule.FromPort /\ ports.list[p] <= rule.ToPort

\* the condition under which a rule with a 0.0.0.0/0 range is appended
matches_ports(rule, ports) ==
    \/ ports.kind = "all"
    \/ rule.IpProtocol = "-1"
    \/ /\ rule.FromPort # NoPort
       /\ \E p \in 1..Len(ports.list) :
              ports.list[p] >= rule.FromPort /\ ports.list[p] <= rule.ToPort

\* the entries one ingress rule adds to sg_info['OpenRules']: one per
\* ip_range that is 0.0.0.0/0
open_rules_of(rule, ports) ==
    Flatten([r \in 1..Len(rule.IpRanges) |->
        IF rule.IpRanges[r] = "0.0.0.0/0" /\ matches_ports(rule, ports)
        THEN <<[IpProtocol |-> rule.IpProtocol, FromPort |-> rule.FromPort,
                ToPort |-> rule.ToPort, CidrIp |-> "0.0.0.0/0",
                Description |-> "No description"]>>
        ELSE <<>>])

sg_info(sg, ports) ==
    [GroupId |-> sg.GroupId, GroupName |-> sg.GroupName,
     Description |-> sg.Description, VpcId |-> sg.VpcId,
     OpenRules |-> Flatten([r \in 1..Len(sg.IpPermissions) |->
                               open_rules_of(sg.IpPermissions[r], ports)])]

find_open_security_groups(security_groups, ports) ==
    LET checked == IF ports.kind = "none" THEN PortList(risky_ports) ELSE ports
        infos == [g \in 1..Len(security_groups) |->
                     sg_info(security_groups[g], checked)]
    IN  SelectSeq(infos, LAMBDA info : info.OpenRules # <<>>)

\* the default of replacement_cidrs: the private networks
private_networks == <<"10.0.0.0/8", "172.16.0.0/12", "192.168.0.0/16">>

open_ranges(rule) == SelectSeq(rule.IpRanges, LAMBDA c : c = "0.0.0.0/0")

revoke_rule(rule) ==
    [IpProtocol |-> rule.IpProtocol, IpRanges |-> open_ranges(rule),
     FromPort |-> rule.FromPort, ToPort |-> rule.ToPort]

\* the replacement rules made for one revoked rule
add_rules(rule, replacement_cidrs) ==
    [c \in 1..Len(replacement_cidrs) |->
        [revoke_rule(rule) EXCEPT !.IpRanges = <<replacement_cidrs[c]>>]]

\* the rules of the group that have a 0.0.0.0/0 range
open_permissions(sg) ==
    SelectSeq(sg.IpPermissions, LAMBDA rule : open_ranges(rule) # <<>>)

plan_revocations(sg) ==
    [r \in 1..Len(open_permissions(sg)) |-> revoke_rule(open_permissions(sg)[r])]

plan_additions(sg, replacement_cidrs) ==
    Flatten([r \in 1..Len(open_permissions(sg)) |->
                add_rules(open_permissions(sg)[r], replacement_cidrs)])

new_plan(sg, dry_run) ==
    [GroupId |-> sg.GroupId, GroupName |-> sg.GroupName, DryRun |-> dry_run,
     RulesRevoked |-> <<>>, RulesAdded |-> <<>>, Errors |-> <<>>]

high_risk_ports == {22, 3389}
medium_risk_ports == {1433, 3306, 5432, 6379, 27017}

\* the loop without the guard that keeps a High level: the last rated rule
\* decides
RECURSIVE risk_level_of_last_rated(_, _, _)
risk_level_of_last_rated(rules, k, level) ==
    IF k > Len(rules) THEN level
    ELSE IF rules[k].IpProtocol = "-1" THEN "High"
    ELSE IF rules[k].FromPort \in high_risk_ports
    THEN risk_level_of_last_rated(rules, k + 1, "High")
    ELSE IF rules[k].FromPort \in medium_risk_ports
    THEN risk_level_of_last_rated(rules, k + 1, "Medium")
    ELSE risk_level_of_last_rated(rules, k + 1, level)

\* the loop that determines RiskLevel, from rule k on with the level so far
RECURSIVE risk_level(_, _, _)
risk_level(rules, k, level) ==
    IF k > Len(rules) THEN level
    ELSE IF rules[k].IpProtocol = "-1" THEN "High"
    ELSE IF rules[k].FromPort \in high_risk_ports
    THEN risk_level(rules, k + 1, "High")
    ELSE IF rules[k].FromPort \in medium_risk_ports /\ level # "High"
    THEN risk_level(rules, k + 1, "Medium")
    ELSE risk_level(rules, k + 1, level)

sg_report(sg) ==
    [GroupId |-> sg.GroupId, GroupName |-> sg.GroupName,
     Description |-> sg.Description, VpcId |-> sg.VpcId,
     RiskLevel |-> risk_level(sg.OpenRules, 1, "Low"),
     OpenRules |-> sg.OpenRules]

\* report['Summary'][f"{sg_report['RiskLevel']}Risk"] += 1, for each group
RECURSIVE count_risks(_, _, _)
count_risks(reports, k, summary) ==
    IF k > Len(reports) THEN summary
    ELSE count_risks(reports, k + 1,
             [summary EXCEPT ![reports[k].RiskLevel \o "Risk"] = @ + 1])

generate_remediation_report(security_groups) ==
    LET open_sgs == find_open_security_groups(security_groups, AllPorts)
        reports == [g \in 1..Len(open_sgs) |-> sg_report(open_sgs[g])]
    IN  [Timestamp |-> Now, Region |-> "us-east-1",
         TotalSecurityGroups |-> Len(open_sgs),
         SecurityGroups |-> reports,
         Summary |-> count_risks(reports, 1,
                         [HighRisk |-> 0, MediumRisk |-> 0, LowRisk |-> 0])]

\* the security groups describe_security_groups returns
MysqlWorld == Rule("tcp", 3306, 3306, <<"0.0.0.0/0">>)
RdpWorld == Rule("tcp", 3389, 3389, <<"0.0.0.0/0">>)

RemRuleLists ==
    { <<>>, <<RdpPrivate>>, <<SshWorld>>, <<WebWorld>>, <<MysqlWorld>>,
      <<AllWorld>>, <<MysqlWorld, RdpWorld>>, <<RdpWorld, MysqlWorld>>,
      <<MysqlWorld, AllWorld>>, <<WebWorld, MysqlWorld>>,
      <<FromZeroWorld, RdpPrivate>>, <<SshWorld, WebWorld, UdpWorld>> }

RemGroup(id, rules) ==
    [GroupId |-> id, GroupName |-> "name-" \o id, Description |-> "group " \o id,
     VpcId |-> "vpc-1", IpPermissions |-> rules]

RemGroupLists ==
    UNION { { [g \in 1..n |-> RemGroup(GroupIds[g], rules[g])] :
              rules \in [1..n -> RemRuleLists] } : n \in 0..MaxRemGroups }

PortArguments ==
    {NoPorts, AllPorts, PortList(<<>>), PortList(<<22>>), PortList(<<443, 3306>>)}

\* replacement_cidrs: None or a list
CidrArguments ==
    { [given |-> FALSE, list |-> <<>>], [given |-> TRUE, list |-> <<>>],
      [given |-> TRUE, list |-> <<"10.1.0.0/16">>] }

RemInputs(op) ==
    CASE op = "find" ->
           { [security_groups |-> l, ports |-> p] :
               l \in RemGroupLists, p \in PortArguments }
      [] op = "report" -> { [security_groups |-> l] : l \in RemGroupLists }
      [] op = "remediate" ->
           { [sg |-> RemGroup("sg-1", rules), dry_run |-> d,
              replacement_cidrs |-> c] :
               rules \in RemRuleLists, d \in BOOLEAN, c \in CidrArguments }

RemInit ==
    /\ EvalIdle /\ RunIdle /\ ReportIdle /\ MainIdle /\ HubIdle /\ TwiceIdle
    /\ FlowIdle /\ HandlerIdle
    /\ rem_op \in {"find", "report", "remediate"}
    /\ rem_in \in RemInputs(rem_op)
    /\ rem_pc = "ready"
    /\ rules_to_revoke = <<>> /\ rules_to_add = <<>> /\ rem_i = 0
    /\ remediation_plan = <<>> /\ ec2_calls = <<>> /\ rem_out = <<>>

\* describe_security_groups raises: each method logs the error and re-raises
DescribeRaises ==
    /\ rem_pc = "ready"
    /\ rem_pc' = "raised"
    /\ UNCHANGED <<rem_op, rem_in, rules_to_revoke, rules_to_add, rem_i,
                   remediation_plan, ec2_calls, rem_out>>
    /\ UNCHANGED not_rem_vars

FindOpen ==
    /\ rem_pc = "ready" /\ rem_op = "find"
    /\ rem_out' = find_open_security_groups(rem_in.security_groups, rem_in.ports)
    /\ rem_pc' = "returned"
    /\ UNCHANGED <<rem_op, rem_in, rules_to_revoke, rules_to_add, rem_i,
                   remediation_plan, ec2_calls>>
    /\ UNCHANGED not_rem_vars

GenerateRemediationReport ==
    /\ rem_pc = "ready" /\ rem_op = "report"
    /\ rem_out' = generate_remediation_report(rem_in.security_groups)
    /\ rem_pc' = "returned"
    /\ UNCHANGED <<rem_op, rem_in, rules_to_revoke, rules_to_add, rem_i,
                   remediation_plan, ec2_calls>>
    /\ UNCHANGED not_rem_vars

replacement_cidrs ==
    IF rem_in.replacement_cidrs.given THEN rem_in.replacement_cidrs.list
    ELSE private_networks

\* a dry run that also makes the revoke calls of its plan
RemediateDryRunCalls ==
    /\ rem_pc = "ready" /\ rem_op = "remediate" /\ rem_in.dry_run
    /\ rules_to_revoke' = plan_revocations(rem_in.sg)
    /\ rules_to_add' = plan_additions(rem_in.sg, replacement_cidrs)
    /\ remediation_plan' =
           [new_plan(rem_in.sg, TRUE) EXCEPT
               !.RulesRevoked = rules_to_revoke', !.RulesAdded = rules_to_add']
    /\ ec2_calls' = [k \in 1..Len(rules_to_revoke') |->
                        [call |-> "revoke", rule |-> rules_to_revoke'[k], ok |-> TRUE]]
    /\ rem_pc' = "returned"
    /\ UNCHANGED <<rem_op, rem_in, rem_i, rem_out>>
    /\ UNCHANGED not_rem_vars

\* remediate_security_group with dry_run=True: the plan is returned as it is
RemediateDryRun ==
    /\ rem_pc = "ready" /\ rem_op = "remediate" /\ rem_in.dry_run
    /\ rules_to_revoke' = plan_revocations(rem_in.sg)
    /\ rules_to_add' = plan_additions(rem_in.sg, replacement_cidrs)
    /\ remediation_plan' =
           [new_plan(rem_in.sg, TRUE) EXCEPT
               !.RulesRevoked = rules_to_revoke', !.RulesAdded = rules_to_add']
    /\ rem_pc' = "returned"
    /\ UNCHANGED <<rem_op, rem_in, rem_i, ec2_calls, rem_out>>
    /\ UNCHANGED not_rem_vars

\* remediate_security_group with dry_run=False, up to the first loop
RemediatePlan ==
    /\ rem_pc = "ready" /\ rem_op = "remediate" /\ ~rem_in.dry_run
    /\ rules_to_revoke' = plan_revocations(rem_in.sg)
    /\ rules_to_add' = plan_additions(rem_in.sg, replacement_cidrs)
    /\ remediation_plan' = new_plan(rem_in.sg, FALSE)
    /\ rem_i' = 1
    /\ rem_pc' = "revoke"
    /\ UNCHANGED <<rem_op, rem_in, ec2_calls, rem_out>>
    /\ UNCHANGED not_rem_vars

Ec2Call(name, rule, ok) == [call |-> name, rule |-> rule, ok |-> ok]

\* error_msg
ErrorMsg(name, rule) == [call |-> name, rule |-> rule]

Revoke ==
    /\ rem_pc = "revoke" /\ rem_i <= Len(rules_to_revoke)
    /\ ec2_calls' = Append(ec2_calls, Ec2Call("revoke", rules_to_revoke[rem_i], TRUE))
    /\ remediation_plan' =
           [remediation_plan EXCEPT
               !.RulesRevoked = Append(@, rules_to_revoke[rem_i])]
    /\ rem_i' = rem_i + 1
    /\ UNCHANGED <<rem_op, rem_in, rem_pc, rules_to_revoke, rules_to_add, rem_out>>
    /\ UNCHANGED not_rem_vars

\* revoke_security_group_ingress raises and the exception ends the first loop
RevokeFailsAndEndsLoop ==
    /\ rem_pc = "revoke" /\ rem_i <= Len(rules_to_revoke)
    /\ ec2_calls' = Append(ec2_calls, Ec2Call("revoke", rules_to_revoke[rem_i], FALSE))
    /\ remediation_plan' =
           [remediation_plan EXCEPT
               !.Errors = Append(@, ErrorMsg("revoke", rules_to_revoke[rem_i]))]
    /\ rem_i' = Len(rules_to_revoke) + 1
    /\ UNCHANGED <<rem_op, rem_in, rem_pc, rules_to_revoke, rules_to_add, rem_out>>
    /\ UNCHANGED not_rem_vars

\* revoke_security_group_ingress raises: the error is recorded, the loop
\* goes on
RevokeFails ==
    /\ rem_pc = "revoke" /\ rem_i <= Len(rules_to_revoke)
    /\ ec2_calls' = Append(ec2_calls, Ec2Call("revoke", rules_to_revoke[rem_i], FALSE))
    /\ remediation_plan' =
           [remediation_plan EXCEPT
               !.Errors = Append(@, ErrorMsg("revoke", rules_to_revoke[rem_i]))]
    /\ rem_i' = rem_i + 1
    /\ UNCHANGED <<rem_op, rem_in, rem_pc, rules_to_revoke, rules_to_add, rem_out>>
    /\ UNCHANGED not_rem_vars

RevokeDone ==
    /\ rem_pc = "revoke" /\ rem_i > Len(rules_to_revoke)
    /\ rem_pc' = "authorize"
    /\ rem_i' = 1
    /\ UNCHANGED <<rem_op, rem_in, rules_to_revoke, rules_to_add,
                   remediation_plan, ec2_calls, rem_out>>
    /\ UNCHANGED not_rem_vars

Authorize ==
    /\ rem_pc = "authorize" /\ rem_i <= Len(rules_to_add)
    /\ ec2_calls' = Append(ec2_calls, Ec2Call("authorize", rules_to_add[rem_i], TRUE))
    /\ remediation_plan' =
           [remediation_plan EXCEPT !.RulesAdded = Append(@, rules_to_add[rem_i])]
    /\ rem_i' = rem_i + 1
    /\ UNCHANGED <<rem_op, rem_in, rem_pc, rules_to_revoke, rules_to_add, rem_out>>
    /\ UNCHANGED not_rem_vars

AuthorizeFails ==
    /\ rem_pc = "authorize" /\ rem_i <= Len(rules_to_add)
    /\ ec2_calls' = Append(ec2_calls, Ec2Call("authorize", rules_to_add[rem_i], FALSE))
    /\ remediation_plan' =
           [remediation_plan EXCEPT
               !.Errors = Append(@, ErrorMsg("authorize", rules_to_add[rem_i]))]
    /\ rem_i' = rem_i + 1
    /\ UNCHANGED <<rem_op, rem_in, rem_pc, rules_to_revoke, rules_to_add, rem_out>>
    /\ UNCHANGED not_rem_vars

RemediateReturn ==
    /\ rem_pc = "authorize" /\ rem_i > Len(rules_to_add)
    /\ rem_pc' = "returned"
    /\ UNCHANGED <<rem_op, rem_in, rules_to_revoke, rules_to_add, rem_i,
                   remediation_plan, ec2_calls, rem_out>>
    /\ UNCHANGED not_rem_vars

RemNext ==
    \/ DescribeRaises
    \/ FindOpen
    \/ GenerateRemediationReport
    \/ RemediateDryRun
    \/ RemediatePlan
    \/ Revoke
    \/ RevokeFails
    \/ RevokeDone
    \/ Authorize
    \/ AuthorizeFails
    \/ RemediateReturn

SpecRemediate == RemInit /\ [][RemNext]_vars

-----------------------------------------------------------------------------
(* Claims about the SecurityGroupRemediator.                                *)

FindReturned == rem_op = "find" /\ rem_pc = "returned"

\* the ports find_open_security_groups checks for an argument
Checked(ports) ==
    CASE ports.kind = "none" -> {22, 3389, 1433, 3306, 5432, 6379, 27017, 9200, 5601}
      [] ports.kind = "all" -> 0..65535
      [] ports.kind = "list" -> Range(ports.list)

WorldOpen(rule) == \E r \in 1..Len(rule.IpRanges) : rule.IpRanges[r] = "0.0.0.0/0"

OpenFor(rule, ports) ==
    /\ WorldOpen(rule)
    /\ \/ rule.IpProtocol = "-1"
       \/ /\ rule.FromPort # NoPort
          /\ \E p \in rule.FromPort..rule.ToPort : p \in Checked(ports)

PortsOf(rule) == <<rule.IpProtocol, rule.FromPort, rule.ToPort>>

Matching(sg, ports) == SelectSeq(sg.IpPermissions, LAMBDA rule : OpenFor(rule, ports))

DryRunReturned == rem_op = "remediate" /\ rem_pc = "returned" /\ rem_in.dry_run

OpenPermissions == SelectSeq(rem_in.sg.IpPermissions, WorldOpen)

Replacements ==
    IF rem_in.replacement_cidrs.given THEN rem_in.replacement_cidrs.list
    ELSE <<"10.0.0.0/8", "172.16.0.0/12", "192.168.0.0/16">>

\* C21: a dry run of remediate_security_group makes no revoke or authorize
\* call and returns no errors; its plan lists one revoked rule per ingress
\* rule with a 0.0.0.0/0 range and, for each such rule, one added rule per
\* replacement CIDR (the three private networks by default).
C21_DryRunOnlyPlans ==
    DryRunReturned =>
        LET n == Len(Replacements)
        IN  /\ ec2_calls = <<>>
            /\ remediation_plan.Errors = <<>>
            /\ remediation_plan.DryRun
            /\ Len(remediation_plan.RulesRevoked) = Len(OpenPermissions)
            /\ \A k \in 1..Len(OpenPermissions) :
                  /\ PortsOf(remediation_plan.RulesRevoked[k]) = PortsOf(OpenPermissions[k])
                  /\ Range(remediation_plan.RulesRevoked[k].IpRanges) = {"0.0.0.0/0"}
            /\ Len(remediation_plan.RulesAdded) = Len(OpenPermissions) * n
            /\ \A k \in 1..Len(OpenPermissions) : \A c \in 1..n :
                  LET added == remediation_plan.RulesAdded[(k - 1) * n + c]
                  IN  /\ PortsOf(added) = PortsOf(OpenPermissions[k])
                      /\ added.IpRanges = <<Replacements[c]>>

\* the dry run of the test: one open rule, the default networks
C21_Witness ==
    /\ DryRunReturned
    /\ ~rem_in.replacement_cidrs.given
    /\ rem_in.sg.IpPermissions = <<SshWorld>>
    /\ Len(remediation_plan.RulesRevoked) = 1
    /\ Len(remediation_plan.RulesAdded) = 3

RateHigh(rule) == rule.IpProtocol = "-1" \/ rule.FromPort \in {22, 3389}
RateMedium(rule) == rule.FromPort \in {1433, 3306, 5432, 6379, 27017}

Level(rules) ==
    IF \E k \in 1..Len(rules) : RateHigh(rules[k]) THEN "High"
    ELSE IF \E k \in 1..Len(rules) : RateMedium(rules[k]) THEN "Medium"
    ELSE "Low"

ReportReturned == rem_op = "report" /\ rem_pc = "returned"

\* C23: generate_remediation_report gives each open security group one risk
\* level whatever the order of its rules: High if an open rule is
\* all-protocol or starts at 22 or 3389, else Medium if one starts at a
\* database port, else Low; and HighRisk + MediumRisk + LowRisk equals
\* TotalSecurityGroups.
C23_RiskLevelPartitionsGroups ==
    ReportReturned =>
        /\ rem_out.TotalSecurityGroups = Len(rem_out.SecurityGroups)
        /\ \A g \in 1..Len(rem_out.SecurityGroups) :
               rem_out.SecurityGroups[g].RiskLevel
                   = Level(rem_out.SecurityGroups[g].OpenRules)
        /\ rem_out.Summary.HighRisk + rem_out.Summary.MediumRisk
               + rem_out.Summary.LowRisk = rem_out.TotalSecurityGroups

\* the same two rules in both orders: High both times
C23_Witness ==
    /\ ReportReturned
    /\ Len(rem_in.security_groups) = 2
    /\ rem_in.security_groups[1].IpPermissions = <<RdpWorld, MysqlWorld>>
    /\ rem_in.security_groups[2].IpPermissions = <<MysqlWorld, RdpWorld>>
    /\ rem_out.SecurityGroups[1].RiskLevel = "High"
    /\ rem_out.SecurityGroups[2].RiskLevel = "High"
    /\ rem_out.Summary.HighRisk = 2

Applying == rem_op = "remediate" /\ ~rem_in.dry_run /\ rem_pc \in {"revoke", "authorize", "returned"}

\* the calls the plan asks for, in the order of the two loops
PlannedCalls ==
    [k \in 1..Len(rules_to_revoke) |-> <<"revoke", rules_to_revoke[k]>>]
        \o [k \in 1..Len(rules_to_add) |-> <<"authorize", rules_to_add[k]>>]

Succeeded(name) ==
    LET calls == SelectSeq(ec2_calls, LAMBDA c : c.call = name /\ c.ok)
    IN  [k \in 1..Len(calls) |-> calls[k].rule]

Failed == SelectSeq(ec2_calls, LAMBDA c : ~c.ok)

\* C28: with dry_run=False remediate_security_group makes the planned calls
\* in order, every revocation before any authorization and each planned rule
\* once; a failed call does not stop the later ones; on return every planned
\* call was made, RulesRevoked and RulesAdded hold exactly the rules whose
\* call succeeded and Errors has one entry per failed call.
C28_AppliesWholePlanInOrder ==
    Applying =>
        /\ Len(ec2_calls) <= Len(PlannedCalls)
        /\ \A k \in 1..Len(ec2_calls) :
               <<ec2_calls[k].call, ec2_calls[k].rule>> = PlannedCalls[k]
        /\ remediation_plan.RulesRevoked = Succeeded("revoke")
        /\ remediation_plan.RulesAdded = Succeeded("authorize")
        /\ Len(remediation_plan.Errors) = Len(Failed)
        /\ \A k \in 1..Len(Failed) :
               /\ remediation_plan.Errors[k].call = Failed[k].call
               /\ remediation_plan.Errors[k].rule = Failed[k].rule
        /\ rem_pc = "returned" => Len(ec2_calls) = Len(PlannedCalls)

\* a run that returned after a failed revocation, a later successful one and
\* a failed authorization
C28_Witness ==
    /\ Applying /\ rem_pc = "returned"
    /\ Len(rules_to_revoke) = 3
    /\ ~ec2_calls[1].ok /\ ec2_calls[2].ok
    /\ \E k \in 4..Len(ec2_calls) : ~ec2_calls[k].ok
    /\ Len(remediation_plan.RulesRevoked) = 2

-----------------------------------------------------------------------------
(* The flow-log enabler: lambda_handler of vpc-flow-logs-enabler. A failed  *)
(* AWS call raises botocore's ClientError.                                  *)

MaxRegions == 2

RegionNames == <<"us-east-1", "eu-west-1", "ap-south-1">>

\* the VPCs describe_vpcs returns in a region
VpcLists == {<<>>, <<"vpc-a">>, <<"vpc-a", "vpc-b">>}

\* the enabled regions describe_regions returns, each with its VPCs
FlowWorlds ==
    UNION { { [regions |-> [r \in 1..n |-> [name |-> RegionNames[r], vpcs |-> vpcs[r]]]] :
              vpcs \in [1..n -> VpcLists] } : n \in 0..MaxRegions }

\* event.get('account_number'): absent, or an account id
FlowEvents == { [account_number |-> None], [account_number |-> "123456789012"] }

FlowInit ==
    /\ EvalIdle /\ RunIdle /\ ReportIdle /\ MainIdle /\ HubIdle /\ TwiceIdle
    /\ RemIdle /\ HandlerIdle
    /\ flow_event \in FlowEvents
    /\ flow_world \in FlowWorlds
    /\ flow_pc = "start"
    /\ region_i = 0 /\ vpc_i = 0 /\ total_processed = 0
    /\ flow_calls = <<>> /\ flow_response = <<>>

FlowCall(name, region, vpc_id, outcome) ==
    [call |-> name, region |-> region, vpc |-> vpc_id, outcome |-> outcome]

\* if not account_id: return 400
NoAccountNumber ==
    /\ flow_pc = "start" /\ flow_event.account_number = None
    /\ flow_response' = [statusCode |-> 400,
                         body |-> "No account_number provided in payload."]
    /\ flow_pc' = "returned"
    /\ UNCHANGED <<flow_event, flow_world, region_i, vpc_i, total_processed,
                   flow_calls>>
    /\ UNCHANGED not_flow_vars

\* assume_role raises ClientError: return 500
AssumeRoleFails ==
    /\ flow_pc = "start" /\ flow_event.account_number # None
    /\ flow_calls' = Append(flow_calls, FlowCall("assume_role", None, None, "ClientError"))
    /\ flow_response' =
           [statusCode |-> 500,
            body |-> "Could not assume role in account " \o flow_event.account_number]
    /\ flow_pc' = "returned"
    /\ UNCHANGED <<flow_event, flow_world, region_i, vpc_i, total_processed>>
    /\ UNCHANGED not_flow_vars

AssumeRole ==
    /\ flow_pc = "start" /\ flow_event.account_number # None
    /\ flow_calls' = Append(flow_calls, FlowCall("assume_role", None, None, "ok"))
    /\ flow_pc' = "regions"
    /\ UNCHANGED <<flow_event, flow_world, region_i, vpc_i, total_processed,
                   flow_response>>
    /\ UNCHANGED not_flow_vars

\* get_all_aws_regions raises: nothing in the handler catches it
DescribeRegionsRaises ==
    /\ flow_pc = "regions"
    /\ flow_pc' = "raised"
    /\ UNCHANGED <<flow_event, flow_world, region_i, vpc_i, total_processed,
                   flow_calls, flow_response>>
    /\ UNCHANGED not_flow_vars

\* regions = get_all_aws_regions(); total_processed = 0
GetAllAwsRegions ==
    /\ flow_pc = "regions"
    /\ total_processed' = 0
    /\ region_i' = 1
    /\ flow_pc' = "region"
    /\ UNCHANGED <<flow_event, flow_world, vpc_i, flow_calls, flow_response>>
    /\ UNCHANGED not_flow_vars

region == flow_world.regions[region_i]

DescribeVpcs ==
    /\ flow_pc = "region" /\ region_i <= Len(flow_world.regions)
    /\ flow_calls' = Append(flow_calls, FlowCall("describe_vpcs", region.name, None, "ok"))
    /\ vpc_i' = 1
    /\ flow_pc' = "vpc"
    /\ UNCHANGED <<flow_event, flow_world, region_i, total_processed, flow_response>>
    /\ UNCHANGED not_flow_vars

\* describe_vpcs raises ClientError and the handler leaves the loop
DescribeVpcsFailsAndBreaks ==
    /\ flow_pc = "region" /\ region_i <= Len(flow_world.regions)
    /\ flow_calls' = Append(flow_calls,
                            FlowCall("describe_vpcs", region.name, None, "ClientError"))
    /\ region_i' = Len(flow_world.regions) + 1
    /\ UNCHANGED <<flow_event, flow_world, flow_pc, vpc_i, total_processed,
                   flow_response>>
    /\ UNCHANGED not_flow_vars

\* describe_vpcs raises ClientError: continue with the next region
DescribeVpcsFails ==
    /\ flow_pc = "region" /\ region_i <= Len(flow_world.regions)
    /\ flow_calls' = Append(flow_calls,
                            FlowCall("describe_vpcs", region.name, None, "ClientError"))
    /\ region_i' = region_i + 1
    /\ UNCHANGED <<flow_event, flow_world, flow_pc, vpc_i, total_processed,
                   flow_response>>
    /\ UNCHANGED not_flow_vars

\* enable_custom_flow_logs returns: create_flow_logs succeeded
EnableCustomFlowLogs ==
    /\ flow_pc = "vpc" /\ vpc_i <= Len(region.vpcs)
    /\ flow_calls' = Append(flow_calls,
           FlowCall("create_flow_logs", region.name, region.vpcs[vpc_i], "ok"))
    /\ total_processed' = total_processed + 1
    /\ vpc_i' = vpc_i + 1
    /\ UNCHANGED <<flow_event, flow_world, flow_pc, region_i, flow_response>>
    /\ UNCHANGED not_flow_vars

\* enable_custom_flow_logs returns: the ClientError's code is
\* FlowLogAlreadyExists and it is not re-raised
FlowLogAlreadyExists ==
    /\ flow_pc = "vpc" /\ vpc_i <= Len(region.vpcs)
    /\ flow_calls' = Append(flow_calls,
           FlowCall("create_flow_logs", region.name, region.vpcs[vpc_i],
                    "FlowLogAlreadyExists"))
    /\ total_processed' = total_processed + 1
    /\ vpc_i' = vpc_i + 1
    /\ UNCHANGED <<flow_event, flow_world, flow_pc, region_i, flow_response>>
    /\ UNCHANGED not_flow_vars

\* enable_custom_flow_logs re-raises another ClientError: continue with the
\* next VPC
EnableCustomFlowLogsFails ==
    /\ flow_pc = "vpc" /\ vpc_i <= Len(region.vpcs)
    /\ flow_calls' = Append(flow_calls,
           FlowCall("create_flow_logs", region.name, region.vpcs[vpc_i], "ClientError"))
    /\ vpc_i' = vpc_i + 1
    /\ UNCHANGED <<flow_event, flow_world, flow_pc, region_i, total_processed,
                   flow_response>>
    /\ UNCHANGED not_flow_vars

\* the inner loop ends: next region
NextRegion ==
    /\ flow_pc = "vpc" /\ vpc_i > Len(region.vpcs)
    /\ region_i' = region_i + 1
    /\ flow_pc' = "region"
    /\ UNCHANGED <<flow_event, flow_world, vpc_i, total_processed, flow_calls,
                   flow_response>>
    /\ UNCHANGED not_flow_vars

FlowReturn ==
    /\ flow_pc = "region" /\ region_i > Len(flow_world.regions)
    /\ flow_response' =
           [statusCode |-> 200,
            body |-> "Successfully processed " \o ToString(total_processed)
                         \o " VPCs in account " \o flow_event.account_number]
    /\ flow_pc' = "returned"
    /\ UNCHANGED <<flow_event, flow_world, region_i, vpc_i, total_processed,
                   flow_calls>>
    /\ UNCHANGED not_flow_vars

FlowNext ==
    \/ NoAccountNumber
    \/ AssumeRoleFails
    \/ AssumeRole
    \/ DescribeRegionsRaises
    \/ GetAllAwsRegions
    \/ DescribeVpcs
    \/ DescribeVpcsFails
    \/ EnableCustomFlowLogs
    \/ FlowLogAlreadyExists
    \/ EnableCustomFlowLogsFails
    \/ NextRegion
    \/ FlowReturn

SpecFlow == FlowInit /\ [][FlowNext]_vars

FlowReturned == flow_pc = "returned"

CallsTo(name) == SelectSeq(flow_calls, LAMBDA c : c.call = name)

RoleAssumed == \E k \in 1..Len(flow_calls) :
                   flow_calls[k].call = "assume_role" /\ flow_calls[k].outcome = "ok"

\* how often name was called for a region (and a VPC of it)
Times(name, where, vpc_id) ==
    Cardinality({k \in 1..Len(flow_calls) :
                    /\ flow_calls[k].call = name
                    /\ flow_calls[k].region = where
                    /\ flow_calls[k].vpc = vpc_id})

Described(where) ==
    \E k \in 1..Len(flow_calls) :
        /\ flow_calls[k].call = "describe_vpcs" /\ flow_calls[k].region = where
        /\ flow_calls[k].outcome = "ok"

Enabled == {k \in 1..Len(flow_calls) :
               /\ flow_calls[k].call = "create_flow_logs"
               /\ flow_calls[k].outcome \in {"ok", "FlowLogAlreadyExists"}}

\* C29: the flow-log enabler returns 400 for a missing account_number and
\* 500 for a failed role assumption, in both cases without visiting a
\* region; otherwise, when it returns, it returns 200, it has called
\* describe_vpcs once in every enabled region and create_flow_logs once for
\* every VPC of every region whose describe_vpcs succeeded, whatever the
\* other calls did, and total_processed is the number of VPCs whose
\* create_flow_logs succeeded or reported FlowLogAlreadyExists.
C29_FailuresSkipOnlyTheirRegionOrVpc ==
    FlowReturned =>
        /\ flow_event.account_number = None =>
               flow_response.statusCode = 400 /\ flow_calls = <<>>
        /\ (flow_event.account_number # None /\ ~RoleAssumed) =>
               /\ flow_response.statusCode = 500
               /\ CallsTo("describe_vpcs") = <<>>
               /\ CallsTo("create_flow_logs") = <<>>
        /\ RoleAssumed =>
               /\ flow_response.statusCode = 200
               /\ \A r \in 1..Len(flow_world.regions) :
                      LET reg == flow_world.regions[r]
                      IN  /\ Times("describe_vpcs", reg.name, None) = 1
                          /\ \A v \in 1..Len(reg.vpcs) :
                                 Times("create_flow_logs", reg.name, reg.vpcs[v])
                                     = IF Described(reg.name) THEN 1 ELSE 0
               /\ total_processed = Cardinality(Enabled)
               /\ flow_response.body =
                      "Successfully processed " \o ToString(Cardinality(Enabled))
                          \o " VPCs in account " \o flow_event.account_number

\* describe_vpcs failed in the first region and create_flow_logs failed for
\* the first VPC of the second; the second VPC was still processed
C29_Witness ==
    /\ FlowReturned /\ flow_response.statusCode = 200
    /\ Len(flow_world.regions) = 2
    /\ ~Described("us-east-1") /\ Described("eu-west-1")
    /\ \E k \in 1..Len(flow_calls) :
           /\ flow_calls[k].call = "create_flow_logs"
           /\ flow_calls[k].vpc = "vpc-a" /\ flow_calls[k].outcome = "ClientError"
    /\ \E k \in 1..Len(flow_calls) :
           /\ flow_calls[k].call = "create_flow_logs"
           /\ flow_calls[k].vpc = "vpc-b"
           /\ flow_calls[k].outcome = "FlowLogAlreadyExists"
    /\ total_processed = 1

-----------------------------------------------------------------------------
(* lambda_handler of the CIS compliance Lambda: configuration, run, storage, *)
(* Security Hub, notification, response. Everything is inside one            *)
(* try / except Exception.                                                   *)

MaxHandlerResults == 3

\* COMPLIANCE_THRESHOLD values; 95 is the default
Thresholds == {0, 50, 95, 100}

HandlerConfigs ==
    { [s3_bucket |-> b, sns_topic |-> t, security_hub_enabled |-> h,
       compliance_threshold |-> c] :
        b \in {None, "reports-bucket"}, t \in {None, "arn:aws:sns:topic"},
        h \in BOOLEAN, c \in Thresholds }

HandlerResultShapes ==
    { aws_result(Checker, r) : r \in
        { ComplianceResult("1.12", COMPLIANT, "N/A", "AWS::IAM::RootAccessKey",
                           "Root user has no active access keys", "N/A"),
          ComplianceResult("5.2", NON_COMPLIANT, "sg-1", "AWS::EC2::SecurityGroup",
                           "Security group allows 0.0.0.0/0 access to port 22",
                           "Remove or restrict the rule"),
          check_method_not_implemented("1.1") } }

HandlerResultLists ==
    UNION { [1..n -> HandlerResultShapes] : n \in 0..MaxHandlerResults }

HandlerInit ==
    /\ EvalIdle /\ RunIdle /\ ReportIdle /\ MainIdle /\ HubIdle /\ TwiceIdle
    /\ RemIdle /\ FlowIdle
    /\ handler_config \in HandlerConfigs
    /\ handler_results \in HandlerResultLists
    /\ handler_pc = "start"
    /\ handler_log = <<>>
    /\ handler_response = <<>>

\* the except branch of lambda_handler
error_response ==
    [statusCode |-> 500,
     body |-> [error |-> QueryError, message |-> "CIS compliance check failed",
               timestamp |-> Now]]

\* compliance_percentage < config['compliance_threshold']
below_threshold(percentage, threshold) ==
    percentage.num < threshold * percentage.den

\* the response of a completed check
success_response(results, config) ==
    LET summary == generate_summary(results)
        compliance_percentage == calculate_compliance_percentage(summary)
        below == below_threshold(compliance_percentage, config.compliance_threshold)
    IN  [statusCode |-> IF below THEN 206 ELSE 200,
         body |-> [message |-> "CIS compliance check completed successfully",
                   summary |-> summary,
                   timestamp |-> Now,
                   total_checks |-> Len(results),
                   compliance_percentage |-> compliance_percentage,
                   warning |-> IF below THEN "Compliance below threshold" ELSE None]]

HandlerCaught(step) ==
    /\ handler_log' = Append(handler_log, step)
    /\ handler_response' = error_response
    /\ handler_pc' = "returned"
    /\ UNCHANGED <<handler_config, handler_results>>
    /\ UNCHANGED not_handler_vars

HandlerStep(step, next) ==
    /\ handler_log' = Append(handler_log, step)
    /\ handler_pc' = next
    /\ UNCHANGED <<handler_config, handler_results, handler_response>>
    /\ UNCHANGED not_handler_vars

\* parsing the configuration or constructing ExtendedCISChecker raises
HandlerSetupRaises == handler_pc = "start" /\ HandlerCaught("setup raised")

\* checker.run_check raises
HandlerRunRaises == handler_pc = "start" /\ HandlerCaught("run raised")

\* configuration, checker, run_check and generate_summary
HandlerRunChecks == handler_pc = "start" /\ HandlerStep("run", "store")

\* if config['s3_bucket']: store_results_s3(...)
StoreResultsS3 ==
    /\ handler_pc = "store"
    /\ HandlerStep(IF handler_config.s3_bucket # None THEN "stored" ELSE "not stored",
                   "hub")

StoreResultsS3Raises ==
    /\ handler_pc = "store" /\ handler_config.s3_bucket # None
    /\ HandlerCaught("store raised")

\* if config['security_hub_enabled']: send_to_security_hub(...); a failed
\* batch_import_findings is logged there
SendToSecurityHub ==
    /\ handler_pc = "hub"
    /\ \E step \in IF ~handler_config.security_hub_enabled THEN {"hub disabled"}
                   ELSE IF generate_summary(handler_results).non_compliant = 0
                   THEN {"submitted"}
                   ELSE {"submitted", "submission failed"} :
           HandlerStep(step, "notify")

\* boto3.client('securityhub') raises
SecurityHubClientRaises ==
    /\ handler_pc = "hub" /\ handler_config.security_hub_enabled
    /\ HandlerCaught("hub client raised")

\* sns.publish raises and the exception reaches lambda_handler
SendNotificationPublishRaises ==
    /\ handler_pc = "notify"
    /\ \/ /\ handler_config.sns_topic # None
          /\ HandlerCaught("publish failed")
       \/ HandlerStep(IF handler_config.sns_topic = None THEN "no topic"
                      ELSE "published", "respond")

\* if config['sns_topic']: send_notification(...); a failed publish is
\* logged there
SendNotification ==
    /\ handler_pc = "notify"
    /\ \E step \in IF handler_config.sns_topic = None THEN {"no topic"}
                   ELSE {"published", "publish failed"} :
           HandlerStep(step, "respond")

\* boto3.client('sns') raises
SnsClientRaises ==
    /\ handler_pc = "notify" /\ handler_config.sns_topic # None
    /\ HandlerCaught("sns client raised")

HandlerRespond ==
    /\ handler_pc = "respond"
    /\ handler_response' = success_response(handler_results, handler_config)
    /\ handler_pc' = "returned"
    /\ UNCHANGED <<handler_config, handler_results, handler_log>>
    /\ UNCHANGED not_handler_vars

HandlerNext ==
    \/ HandlerSetupRaises
    \/ HandlerRunRaises
    \/ HandlerRunChecks
    \/ StoreResultsS3
    \/ StoreResultsS3Raises
    \/ SendToSecurityHub
    \/ SecurityHubClientRaises
    \/ SendNotification
    \/ SnsClientRaises
    \/ HandlerRespond

SpecHandler == HandlerInit /\ [][HandlerNext]_vars

HandlerReturned == handler_pc = "returned"

Logged(step) == \E k \in 1..Len(handler_log) : handler_log[k] = step

CompliantCount == Cardinality({k \in 1..Len(handler_results) :
                                  handler_results[k].status = COMPLIANT})
NonCompliantCount == Cardinality({k \in 1..Len(handler_results) :
                                     handler_results[k].status = NON_COMPLIANT})

\* compliant / (compliant + non_compliant) * 100 >= threshold, 100 when no
\* result is applicable
MeetsThreshold ==
    IF CompliantCount + NonCompliantCount = 0
    THEN 100 >= handler_config.compliance_threshold
    ELSE CompliantCount * 100
             >= handler_config.compliance_threshold * (CompliantCount + NonCompliantCount)

ClientRaised == Logged("hub client raised") \/ Logged("sns client raised")

====
